---- MODULE Spec2Model ----
(***************************************************************************)
(* The DHCP manager of NetworkManager (src/dhcp-manager/nm-dhcp-manager.c) *)
(* as a state machine: the client registry, the handlers the manager       *)
(* connects to each client, the bus "Event" handler, start_client and      *)
(* teardown; the dhcpcd client (src/dhcp-manager/nm-dhcp-dhcpcd.c) with    *)
(* its PID file and its classless-routes parser; and the session monitor   *)
(* (src/nm-session-monitor.c).  C strings are sequences of character codes.*)
(***************************************************************************)
EXTENDS Integers, Sequences, FiniteSets, TLC

VARIABLES
    client_type,   \* priv->client_type, set by nm_dhcp_manager_new
    clients,       \* priv->clients: the client objects in the registry
    handlers,      \* the manager's handlers connected to client signals
    disposed,      \* the manager has been disposed
    obj,           \* the heap of NMDHCPClient objects
    procs,         \* PIDs of the helper processes that are running
    op,            \* the operation that made the last step, with its inputs
    calls,         \* the calls that operation made, in order
    hostname_provider,  \* priv->hostname_provider
    providers,     \* the hostname provider objects that exist
    weak_refs,     \* providers carrying the manager's weak-reference callback
    singleton,     \* the file-scope pointer "singleton"
    managers,      \* the heap of NMDHCPManager objects
    build,         \* DHCLIENT_PATH and DHCPCD_PATH of the build
    input,         \* the argument of the function under study
    output,        \* what the function returned
    disk,          \* the files under the run directory and the helper binary
    monitor,       \* the NMSessionMonitor object
    ckdb           \* the ConsoleKit database file

vars == <<client_type, clients, handlers, disposed, obj, procs,
          op, calls, hostname_provider, providers, weak_refs,
          singleton, managers, build, input, output, disk,
          monitor, ckdb>>

hostVars == <<hostname_provider, providers, weak_refs>>
newVars == <<singleton, managers, build>>
pureVars == <<input, output>>
sessVars == <<monitor, ckdb>>

----------------------------------------------------------------------------
(* Bounds *)

MaxClients == 3     \* client objects that can be allocated at once
MaxProviders == 2   \* hostname provider objects
MaxManagers == 3    \* manager objects that can be allocated at once
MaxRefs == 3        \* references held on one manager object
MaxBytes == 3       \* length of the byte arrays that are decoded
MaxPairs == 2       \* destination/gateway pairs in a classless-routes option
MaxDhcpcd == 2      \* dhcpcd client objects a daemon holds at once

----------------------------------------------------------------------------
(* Values *)

NULL == 0
ClientIds == 1..MaxClients
Providers == 1..MaxProviders
ManagerIds == 1..MaxManagers

\* "e0", "e1"
Ifaces == { <<101, 48>>, <<101, 49>> }

\* PIDs the kernel hands out to helpers
Pids == { 12, 13 }

NM_TYPE_DHCP_DHCLIENT == "NM_TYPE_DHCP_DHCLIENT"
NM_TYPE_DHCP_DHCPCD == "NM_TYPE_DHCP_DHCPCD"

DHC_PREINIT == "PREINIT"
DHC_BOUND == "BOUND"
DHC_FAIL == "FAIL"
DHC_TIMEOUT == "TIMEOUT"
DHC_ABEND == "ABEND"
DHC_END == "END"

STATE_ID_TAG == "state-id"
TIMEOUT_ID_TAG == "timeout-id"

\* a char* : NULL or a string
NullStr == [null |-> TRUE, str |-> <<>>]
Str(s) == [null |-> FALSE, str |-> s]

----------------------------------------------------------------------------
(* Option decoding and PID parsing *)

\* garray_to_string: NULs become spaces, bytes above 127 become '?'
\* mutant: the bytes are copied as they are
garray_to_string_raw(array) == array

garray_to_string(array) ==
    [i \in 1..Len(array) |->
        IF array[i] = 0 THEN 32
        ELSE IF array[i] > 127 THEN 63
        ELSE array[i]]

\* an entry of the options hash: absent, of another GValue type, or a byte array
Absent == [kind |-> "absent", data |-> <<>>]
WrongType == [kind |-> "wrongtype", data |-> <<>>]
Bytes(b) == [kind |-> "bytes", data |-> b]

get_option(hash, key) ==
    LET value == hash[key]
    IN  IF value.kind = "absent" THEN NullStr
        ELSE IF value.kind # "bytes" THEN NullStr
        ELSE Str(garray_to_string(value.data))

\* unsigned long (64 bit) as four 16-bit limbs, least significant first
ULONG_MAX == << 65535, 65535, 65535, 65535 >>
ULongZero == << 0, 0, 0, 0 >>

\* acc * 10 + d, with the carry out of bit 63
MulAdd10(acc, d) ==
    LET t1 == acc[1] * 10 + d
        t2 == acc[2] * 10 + (t1 \div 65536)
        t3 == acc[3] * 10 + (t2 \div 65536)
        t4 == acc[4] * 10 + (t3 \div 65536)
    IN  [limbs |-> << t1 % 65536, t2 % 65536, t3 % 65536, t4 % 65536 >>,
         carry |-> t4 \div 65536]

\* 0 - v modulo 2^64
ULongNegate(v) ==
    LET n1 == (65535 - v[1]) + 1
        n2 == (65535 - v[2]) + (n1 \div 65536)
        n3 == (65535 - v[3]) + (n2 \div 65536)
        n4 == (65535 - v[4]) + (n3 \div 65536)
    IN  << n1 % 65536, n2 % 65536, n3 % 65536, n4 % 65536 >>

isspace(c) == c \in {32, 9, 10, 11, 12, 13}
isdigit(c) == c \in 48..57

RECURSIVE SkipSpace(_, _)
SkipSpace(s, i) ==
    IF i <= Len(s) /\ isspace(s[i]) THEN SkipSpace(s, i + 1) ELSE i

RECURSIVE ScanDigits(_, _, _, _)
ScanDigits(s, i, acc, overflow) ==
    IF i <= Len(s) /\ isdigit(s[i])
    THEN LET r == MulAdd10(acc, s[i] - 48)
         IN  ScanDigits(s, i + 1, r.limbs, overflow \/ r.carry > 0)
    ELSE [limbs |-> acc, overflow |-> overflow]

\* strtoul (nptr, NULL, 10): leading white space, an optional sign, then the
\* longest run of digits; whatever follows is ignored.  The value is
\* ULONG_MAX with errno set to ERANGE on overflow.
strtoul(nptr) ==
    LET i0 == SkipSpace(nptr, 1)
        signed == i0 <= Len(nptr) /\ nptr[i0] \in {43, 45}
        negative == signed /\ nptr[i0] = 45
        r == ScanDigits(nptr, IF signed THEN i0 + 1 ELSE i0, ULongZero, FALSE)
    IN  [value |-> IF r.overflow THEN ULONG_MAX
                   ELSE IF negative THEN ULongNegate(r.limbs)
                   ELSE r.limbs,
         erange |-> r.overflow]

\* (GPid) temp: GPid is int, the conversion keeps the low 32 bits
GPid(temp) ==
    IF temp[2] >= 32768 THEN (temp[2] - 65536) * 65536 + temp[1]
    ELSE temp[2] * 65536 + temp[1]

----------------------------------------------------------------------------
(* The client object (nm-dhcp-client.c: its contract, as the manager uses it) *)

FreeObj == [alloc |-> FALSE, type |-> "", iface |-> <<>>, pid |-> 0,
            pid_file |-> NullStr, state |-> "", timer |-> FALSE, watch |-> FALSE]

\* g_object_new (type, NM_DHCP_CLIENT_INTERFACE, iface, NULL)
NewObj(type, iface) ==
    [alloc |-> TRUE, type |-> type, iface |-> iface, pid |-> 0,
     pid_file |-> NullStr, state |-> DHC_PREINIT, timer |-> FALSE, watch |-> FALSE]

nm_dhcp_client_get_pid(o, c) == o[c].pid
nm_dhcp_client_get_iface(o, c) == o[c].iface

\* the fixed table from an event's reason to a DhcpState; NULL when unknown
\* "BOUND", "FAIL", "STOP"
ReasonToState(reason) ==
    IF reason = << 66, 79, 85, 78, 68 >> THEN Str(DHC_BOUND)
    ELSE IF reason = << 70, 65, 73, 76 >> THEN Str(DHC_FAIL)
    ELSE IF reason = << 83, 84, 79, 80 >> THEN Str(DHC_END)
    ELSE NullStr

\* entering one of these states disarms the client's timeout
DisarmingStates == { DHC_ABEND, DHC_END, DHC_TIMEOUT, DHC_FAIL }

\* the client enters new_state
EnterState(o, c, new_state) ==
    [o EXCEPT ![c].state = new_state,
              ![c].timer = IF new_state \in DisarmingStates THEN FALSE ELSE @]

\* nm_dhcp_client_stop: terminate the helper, drop the watch and the timeout
nm_dhcp_client_stop(o, c) ==
    [o EXCEPT ![c].timer = FALSE, ![c].watch = FALSE]

\* the helpers left running once client c has been stopped
StopProcs(o, c, ps) == IF o[c].watch THEN ps \ {o[c].pid} ELSE ps

\* "/run/dhcpcd-", "/run/dhclient-", ".pid"
DhcpcdPidPrefix == << 47, 114, 117, 110, 47, 100, 104, 99, 112, 99, 100, 45 >>
DhclientPidPrefix == << 47, 114, 117, 110, 47, 100, 104, 99, 108, 105, 101, 110, 116, 45 >>
PidSuffix == << 46, 112, 105, 100 >>

\* mutant: the back-end leaves the PID-file path unset
PidFileOf_unset(type, iface) == NullStr

\* the PID-file path the back-end's ip4_start sets before it spawns:
\* g_strdup_printf (LOCALSTATEDIR "/run/dhcpcd-%s.pid", iface) for dhcpcd
PidFileOf(type, iface) ==
    IF type = NM_TYPE_DHCP_DHCPCD
    THEN Str(DhcpcdPidPrefix \o iface \o PidSuffix)
    ELSE Str(DhclientPidPrefix \o iface \o PidSuffix)

\* nm_dhcp_client_start: the back-end sets the PID-file path and spawns; on
\* success the helper runs as pid, is watched, and the timeout is armed
nm_dhcp_client_start(o, c, success, pid) ==
    LET o1 == [o EXCEPT ![c].pid_file = PidFileOf(o[c].type, o[c].iface)]
    IN  IF success
        THEN [o1 EXCEPT ![c].pid = pid, ![c].timer = TRUE, ![c].watch = TRUE]
        ELSE o1

\* The heap keeps a client while the registry refers to it or while it can
\* still emit a signal (its timeout is armed or it watches its helper); the
\* caller of start_client holds its reference at least that long.
Sweep(o, registry) ==
    [c \in ClientIds |->
        IF c \in registry \/ o[c].watch \/ o[c].timer THEN o[c] ELSE FreeObj]

----------------------------------------------------------------------------
(* The manager (nm-dhcp-manager.c) *)

Call(fn, c, arg) == [fn |-> fn, client |-> c, arg |-> arg]
NoArg == [interface |-> Absent, pid |-> Absent, reason |-> Absent]

\* the manager's private state while a handler runs
Mgr(registry, conns, log) ==
    [clients |-> registry, handlers |-> conns, calls |-> log]

\* mutant: any selector chooses dhclient
nm_dhcp_manager_new_any(client, dhclient_path, dhcpcd_path) ==
    [ok |-> TRUE, client_type |-> NM_TYPE_DHCP_DHCLIENT]

\* nm_dhcp_manager_new: the back-end chosen by the selector; fails when the
\* selector names no back-end with a non-empty path
nm_dhcp_manager_new(client, dhclient_path, dhcpcd_path) ==
    IF client = "dhclient" /\ dhclient_path # ""
    THEN [ok |-> TRUE, client_type |-> NM_TYPE_DHCP_DHCLIENT]
    ELSE IF client = "dhcpcd" /\ dhcpcd_path # ""
    THEN [ok |-> TRUE, client_type |-> NM_TYPE_DHCP_DHCPCD]
    ELSE [ok |-> FALSE, client_type |-> ""]

\* the candidates the hash-table iteration can return first; {NULL} when none
get_client_for_pid(m, o, pid) ==
    LET found == { c \in m.clients : nm_dhcp_client_get_pid(o, c) = pid }
    IN  IF found = {} THEN {NULL} ELSE found

\* mutant: the lookup by interface finds nothing
get_client_for_iface_none(m, o, iface) == {NULL}

get_client_for_iface(m, o, iface) ==
    LET found == { c \in m.clients : nm_dhcp_client_get_iface(o, c) = iface }
    IN  IF found = {} THEN {NULL} ELSE found

\* mutant: the handlers stay connected to the removed client
remove_client_keep_handlers(m, client) ==
    [m EXCEPT !.clients = @ \ {client},
              !.calls = Append(@, Call("remove_client", client, NoArg))]

remove_client(m, client) ==
    [m EXCEPT !.handlers = @ \ { <<client, STATE_ID_TAG>>, <<client, TIMEOUT_ID_TAG>> },
              !.clients = @ \ {client},
              !.calls = Append(@, Call("remove_client", client, NoArg))]

\* mutant: only ABEND removes the client
client_state_changed_abend_only(m, client, new_state) ==
    IF new_state = DHC_ABEND THEN remove_client(m, client) ELSE m

\* mutant: FAIL removes the client too
client_state_changed_fail_too(m, client, new_state) ==
    IF new_state = DHC_ABEND \/ new_state = DHC_END \/ new_state = DHC_FAIL
    THEN remove_client(m, client)
    ELSE m

client_state_changed(m, client, new_state) ==
    IF new_state = DHC_ABEND \/ new_state = DHC_END
    THEN remove_client(m, client)
    ELSE m

\* mutant: the timeout handler leaves the client registered
client_timeout_noop(m, client) == m

client_timeout(m, client) == remove_client(m, client)

add_client(m, client) ==
    [m EXCEPT !.handlers = @ \cup { <<client, STATE_ID_TAG>>, <<client, TIMEOUT_ID_TAG>> },
              !.clients = @ \cup {client},
              !.calls = Append(@, Call("add_client", client, NoArg))]

\* the client emits "state-changed": the manager's handler runs if connected
EmitStateChanged(m, client, new_state) ==
    IF <<client, STATE_ID_TAG>> \in m.handlers
    THEN client_state_changed(m, client, new_state)
    ELSE m

\* the client emits "timeout": the manager's handler runs if connected
EmitTimeout(m, client) ==
    IF <<client, TIMEOUT_ID_TAG>> \in m.handlers
    THEN client_timeout(m, client)
    ELSE m

\* nm_dhcp_client_new_options, called at the end of handle_event: the client
\* takes the state the reason maps to and emits "state-changed"
nm_dhcp_client_new_options(m, o, client, options, reason) ==
    LET new_state == ReasonToState(reason)
        m1 == [m EXCEPT !.calls = Append(@, Call("nm_dhcp_client_new_options", client, options))]
    IN  IF new_state.null
        THEN [m |-> m1, o |-> o]
        ELSE [m |-> EmitStateChanged(m1, client, new_state.str),
              o |-> EnterState(o, client, new_state.str)]

\* the first client the event is looked up for: NULL when a field is missing
\* or the PID does not convert
EventClients(m, o, iface, pid_str, errno) ==
    IF iface.null THEN {NULL}
    ELSE IF pid_str.null THEN {NULL}
    ELSE LET temp == strtoul(pid_str.str)
             errno_after == IF temp.erange THEN "ERANGE" ELSE errno
         IN  IF temp.value = ULONG_MAX /\ errno_after = "ERANGE" THEN {NULL}
             ELSE get_client_for_pid(m, o, GPid(temp.value))

\* mutant: the interface comparison is inverted
EventAccepted_inverted(o, client, iface, reason) ==
    /\ client # NULL
    /\ iface.str # nm_dhcp_client_get_iface(o, client)
    /\ ~reason.null

\* the checks between the lookup and the call of new_options
EventAccepted(o, client, iface, reason) ==
    /\ client # NULL
    /\ iface.str = nm_dhcp_client_get_iface(o, client)
    /\ ~reason.null

\* the operation of a step: its name and, where one applies, the interface it
\* was called for, the client it returned or that emitted, the state emitted
Op(name, iface, c, arg) == [name |-> name, iface |-> iface, client |-> c, arg |-> arg]

\* mutant: an event that fails a check after the lookup unregisters the client
EventOutcome_drop_removes(m, o, client, accepted, options, reason) ==
    IF accepted
    THEN nm_dhcp_client_new_options(m, o, client, options, reason.str)
    ELSE [m |-> IF client # NULL THEN remove_client(m, client) ELSE m, o |-> o]

\* the end of handle_event: the call of new_options, or "out:" alone
EventOutcome(m, o, client, accepted, options, reason) ==
    IF accepted
    THEN nm_dhcp_client_new_options(m, o, client, options, reason.str)
    ELSE [m |-> m, o |-> o]

\* the bus delivers an "Event" signal; errno is whatever an earlier call left
nm_dhcp_manager_handle_event(options, errno) ==
    /\ ~disposed
    /\ LET m0 == Mgr(clients, handlers, <<>>)
           iface == get_option(options, "interface")
           pid_str == get_option(options, "pid")
           reason == get_option(options, "reason")
       IN  \E client \in EventClients(m0, obj, iface, pid_str, errno) :
             LET accepted == EventAccepted(obj, client, iface, reason)
                 r == EventOutcome(m0, obj, client, accepted, options, reason)
             IN  /\ clients' = r.m.clients
                 /\ handlers' = r.m.handlers
                 /\ calls' = r.m.calls
                 /\ obj' = Sweep(r.o, r.m.clients)
    /\ op' = Op("handle_event", <<>>, NULL, "")
    /\ UNCHANGED <<client_type, disposed, procs, hostVars, newVars, pureVars, disk, sessVars>>

\* the object g_object_new returns: a slot of the heap that was free when the
\* operation began, so that it differs from every object the operation sees
NewClient(o) == CHOOSE c \in ClientIds : ~o[c].alloc /\ \A d \in ClientIds : ~o[d].alloc => c <= d

\* the type of the client start_client constructs
StartClientType == NM_TYPE_DHCP_DHCLIENT

\* mutant: the old client is stopped but stays in the registry
KillOld_stop_only(m, old) ==
    IF old # NULL
    THEN [m EXCEPT !.calls = Append(@, Call("nm_dhcp_client_stop", old, NoArg))]
    ELSE m

\* "Kill any old client instance"
KillOld(m, old) ==
    IF old # NULL
    THEN remove_client([m EXCEPT !.calls = Append(@, Call("nm_dhcp_client_stop", old, NoArg))], old)
    ELSE m

\* mutant: a client whose start failed is returned and stays registered
StartResult_keep_failed(m, client, success) == [m |-> m, ret |-> client]

\* the end of start_client: a client whose start failed is removed from the
\* registry and released, and NULL is returned
StartResult(m, client, success) ==
    IF ~success
    THEN [m |-> remove_client(m, client), ret |-> NULL]
    ELSE [m |-> m, ret |-> client]

\* an NMSettingIP4Config, as far as start_client reads it; NoSetting is NULL
NoSetting == [null |-> TRUE, send_hostname |-> FALSE, dhcp_hostname |-> NullStr]
Setting(send_hostname, dhcp_hostname) ==
    [null |-> FALSE, send_hostname |-> send_hostname, dhcp_hostname |-> dhcp_hostname]

\* mutant: the hostname is set on the caller's object, not on a duplicate
HostnameSetting_in_place(s_ip4, provider, hostname) ==
    IF ~s_ip4.null /\ s_ip4.send_hostname /\ s_ip4.dhcp_hostname.null /\ provider # NULL
    THEN [setting |-> [s_ip4 EXCEPT !.dhcp_hostname = hostname],
          s_ip4 |-> [s_ip4 EXCEPT !.dhcp_hostname = hostname], read |-> TRUE]
    ELSE [setting |-> NoSetting, s_ip4 |-> s_ip4, read |-> FALSE]

\* mutant: the provider is no longer consulted
HostnameSetting_never(s_ip4, provider, hostname) ==
    [setting |-> NoSetting, s_ip4 |-> s_ip4, read |-> FALSE]

\* the settings start_client hands to the client: a duplicate of s_ip4 with
\* the provider's hostname when the hostname is to be sent, none is given and
\* a provider is registered, else NULL.  s_ip4 is the caller's object after
\* the call, read tells whether the provider was asked for its hostname.
HostnameSetting(s_ip4, provider, hostname) ==
    IF ~s_ip4.null /\ s_ip4.send_hostname /\ s_ip4.dhcp_hostname.null /\ provider # NULL
    THEN [setting |-> [s_ip4 EXCEPT !.dhcp_hostname = hostname],
          s_ip4 |-> s_ip4, read |-> TRUE]
    ELSE [setting |-> NoSetting, s_ip4 |-> s_ip4, read |-> FALSE]

\* what the log records of nm_dhcp_client_start: the caller's settings before
\* and after start_client, and the settings handed to the client
StartArg(s_ip4, h) == [s_ip4_in |-> s_ip4, s_ip4 |-> h.s_ip4, setting |-> h.setting]

\* Manager.start: hostname is what the provider answers if it is asked,
\* success and pid are the outcome of spawning the helper
nm_dhcp_manager_start_client(iface, s_ip4, hostname, success, pid) ==
    /\ ~disposed
    /\ \E old \in get_client_for_iface(Mgr(clients, handlers, <<>>), obj, iface) :
         LET m0 == Mgr(clients, handlers, <<>>)
             m1 == KillOld(m0, old)
             o1 == IF old # NULL
                   THEN Sweep(nm_dhcp_client_stop(obj, old), m1.clients)
                   ELSE obj
             p1 == IF old # NULL THEN StopProcs(obj, old, procs) ELSE procs
         IN  /\ success => pid \notin p1
             /\ \E c \in ClientIds : ~obj[c].alloc
             /\ LET client == NewClient(obj)
                    \* And make a new one
                    o2 == [o1 EXCEPT ![client] = NewObj(StartClientType, iface)]
                    m2 == add_client(m1, client)
                    h == HostnameSetting(s_ip4, hostname_provider, hostname)
                    m2h == IF h.read
                           THEN [m2 EXCEPT !.calls =
                                    Append(@, Call("nm_hostname_provider_get_hostname",
                                                   hostname_provider, [hostname |-> hostname]))]
                           ELSE m2
                    m3 == [m2h EXCEPT !.calls =
                              Append(@, Call("nm_dhcp_client_start", client, StartArg(s_ip4, h)))]
                    o3 == nm_dhcp_client_start(o2, client, success, pid)
                    r == StartResult(m3, client, success)
                    m4 == r.m
                IN  /\ clients' = m4.clients
                    /\ handlers' = m4.handlers
                    /\ calls' = m4.calls
                    /\ obj' = Sweep(o3, m4.clients)
                    /\ procs' = IF success THEN p1 \cup {pid} ELSE p1
                    /\ op' = Op("start_client", iface, r.ret,
                                IF success THEN "spawned" ELSE "spawn-failed")
    /\ UNCHANGED <<client_type, disposed, hostVars, newVars, pureVars, disk, sessVars>>

FreeManager == [alive |-> FALSE, client_type |-> "", proxy |-> FALSE, ref_count |-> 0]

\* the object g_object_new (NM_TYPE_DHCP_MANAGER, NULL) returns
NewManager(ms) ==
    CHOOSE m \in ManagerIds :
        ~ms[m].alive /\ \A n \in ManagerIds : ~ms[n].alive => m <= n

\* Manager.new: the new object is stored in singleton at once; it is released
\* and singleton reset when no back-end is selected, else it subscribes to the
\* bus signal "Event"
ManagerNew(client) ==
    /\ \E m \in ManagerIds : ~managers[m].alive
    /\ LET self == NewManager(managers)
           r == nm_dhcp_manager_new(client, build.dhclient_path, build.dhcpcd_path)
       IN  IF r.ok
           THEN /\ managers' = [managers EXCEPT ![self] =
                                   [alive |-> TRUE, client_type |-> r.client_type,
                                    proxy |-> TRUE, ref_count |-> 1]]
                /\ singleton' = self
                /\ calls' = << Call("g_object_new", self, NoArg),
                               Call("dbus_g_proxy_connect_signal", self, NoArg) >>
                /\ op' = Op("new", <<>>, self, client)
           ELSE /\ managers' = [managers EXCEPT ![self] = FreeManager]
                /\ singleton' = NULL
                /\ calls' = << Call("g_object_new", self, NoArg),
                               Call("g_object_unref", self, NoArg) >>
                /\ op' = Op("new", <<>>, NULL, client)
    /\ UNCHANGED <<client_type, clients, handlers, disposed, obj, procs,
                   hostVars, build, pureVars, disk, sessVars>>

\* Manager.get: a new reference to whatever singleton points to
nm_dhcp_manager_get ==
    /\ singleton # NULL => managers[singleton].ref_count < MaxRefs
    /\ managers' = IF singleton # NULL
                   THEN [managers EXCEPT ![singleton].ref_count = @ + 1]
                   ELSE managers
    /\ op' = Op("get", <<>>, singleton, "")
    /\ calls' = <<>>
    /\ UNCHANGED <<client_type, clients, handlers, disposed, obj, procs,
                   hostVars, singleton, build, pureVars, disk, sessVars>>

\* the orders in which the values of the hash table can be listed
Orderings(S) ==
    { s \in [1..Cardinality(S) -> S] : \A i, j \in 1..Cardinality(S) : s[i] = s[j] => i = j }

\* mutant: teardown stops each client before it removes it
RECURSIVE RemoveAll_stopping(_, _)
RemoveAll_stopping(m, values) ==
    IF values = <<>> THEN m
    ELSE RemoveAll_stopping(
            remove_client([m EXCEPT !.calls =
                              Append(@, Call("nm_dhcp_client_stop", Head(values), NoArg))],
                          Head(values)),
            Tail(values))

RECURSIVE RemoveAll(_, _)
RemoveAll(m, values) ==
    IF values = <<>> THEN m
    ELSE RemoveAll(remove_client(m, Head(values)), Tail(values))

\* mutant: the weak-reference callback leaves the manager's pointer alone
hostname_provider_destroyed_keep(provider) == provider

\* the weak-reference callback: priv->hostname_provider after it has run
hostname_provider_destroyed(provider) == NULL

\* mutant: the old provider's weak reference is not dropped
DropProvider_keep_ref(provider, refs) == [provider |-> NULL, refs |-> refs]

\* if (priv->hostname_provider) { g_object_weak_unref (...); ... = NULL; }
DropProvider(provider, refs) ==
    [provider |-> NULL, refs |-> refs \ {provider}]

nm_dhcp_manager_set_hostname_provider(provider) ==
    /\ ~disposed
    /\ LET d == IF hostname_provider # NULL
                THEN DropProvider(hostname_provider, weak_refs)
                ELSE [provider |-> hostname_provider, refs |-> weak_refs]
       IN  IF provider # NULL
           THEN /\ hostname_provider' = provider
                /\ weak_refs' = d.refs \cup {provider}
           ELSE /\ hostname_provider' = d.provider
                /\ weak_refs' = d.refs
    /\ op' = Op("set_hostname_provider", <<>>, provider, "")
    /\ calls' = <<>>
    /\ UNCHANGED <<client_type, clients, handlers, disposed, obj, procs,
                   providers, newVars, pureVars, disk, sessVars>>

\* the provider object is finalized: GObject runs the weak-reference
\* callbacks registered on it
ProviderDestroyed(provider) ==
    /\ provider \in providers
    /\ providers' = providers \ {provider}
    /\ weak_refs' = weak_refs \ {provider}
    /\ IF provider \in weak_refs
       THEN /\ hostname_provider' = hostname_provider_destroyed(hostname_provider)
            /\ calls' = << Call("hostname_provider_destroyed", provider, NoArg) >>
       ELSE /\ UNCHANGED hostname_provider
            /\ calls' = <<>>
    /\ op' = Op("provider_destroyed", <<>>, provider, "")
    /\ UNCHANGED <<client_type, clients, handlers, disposed, obj, procs,
                   newVars, pureVars, disk, sessVars>>

\* teardown of the manager: dispose, then finalize
dispose ==
    /\ ~disposed
    /\ \E values \in Orderings(clients) :
         LET m == RemoveAll(Mgr(clients, handlers, <<>>), values)
         IN  /\ clients' = m.clients
             /\ handlers' = m.handlers
             /\ calls' = m.calls
             /\ obj' = Sweep(obj, m.clients)
    /\ disposed' = TRUE
    /\ LET d == IF hostname_provider # NULL
                THEN DropProvider(hostname_provider, weak_refs)
                ELSE [provider |-> hostname_provider, refs |-> weak_refs]
       IN  /\ hostname_provider' = d.provider
           /\ weak_refs' = d.refs
    /\ op' = Op("dispose", <<>>, NULL, "")
    /\ UNCHANGED <<client_type, procs, providers, newVars, pureVars, disk, sessVars>>

\* helper pid exits: the client watching it takes END (clean exit) or ABEND
\* and emits "state-changed"
HelperExit(pid, new_state) ==
    /\ pid \in procs
    /\ procs' = procs \ {pid}
    /\ LET watching == { c \in ClientIds : obj[c].alloc /\ obj[c].watch /\ obj[c].pid = pid }
       IN  IF watching = {}
           THEN /\ UNCHANGED <<clients, handlers, obj>>
                /\ calls' = <<>>
                /\ op' = Op("helper_exit", <<>>, NULL, "")
           ELSE \E c \in watching :
                  LET m == EmitStateChanged(Mgr(clients, handlers, <<>>), c, new_state)
                      o == [EnterState(obj, c, new_state) EXCEPT ![c].watch = FALSE]
                  IN  /\ clients' = m.clients
                      /\ handlers' = m.handlers
                      /\ calls' = m.calls
                      /\ obj' = Sweep(o, m.clients)
                      /\ op' = Op("state_changed", <<>>, c, new_state)
    /\ UNCHANGED <<client_type, disposed, hostVars, newVars, pureVars, disk, sessVars>>

\* the one-shot timer of client c fires: it takes TIMEOUT and emits "timeout"
ClientTimeout(c) ==
    /\ obj[c].alloc
    /\ obj[c].timer
    /\ LET m == EmitTimeout(Mgr(clients, handlers, <<>>), c)
           o == EnterState(obj, c, DHC_TIMEOUT)
       IN  /\ clients' = m.clients
           /\ handlers' = m.handlers
           /\ calls' = m.calls
           /\ obj' = Sweep(o, m.clients)
    /\ op' = Op("timeout", <<>>, c, "")
    /\ UNCHANGED <<client_type, disposed, procs, hostVars, newVars, pureVars, disk, sessVars>>


----------------------------------------------------------------------------
(* Option decoding and the classless static routes of dhcpcd as functions *)

\* the first index of character c in s; 0 stands for NULL
strchr(s, c) ==
    IF \E i \in 1..Len(s) : s[i] = c
    THEN CHOOSE i \in 1..Len(s) : s[i] = c /\ \A j \in 1..(i - 1) : s[j] # c
    ELSE 0

\* the pieces of s between the occurrences of delimiter
RECURSIVE SplitAt(_, _)
SplitAt(s, delimiter) ==
    LET i == strchr(s, delimiter)
    IN  IF i = 0 THEN << s >>
        ELSE << SubSeq(s, 1, i - 1) >> \o SplitAt(SubSeq(s, i + 1, Len(s)), delimiter)

\* g_strsplit (string, " ", 0): the empty string gives the empty vector
g_strsplit(string, delimiter) ==
    IF string = << >> THEN << >> ELSE SplitAt(string, delimiter)

LONG_MAX == << 65535, 65535, 65535, 32767 >>
LONG_MIN == << 0, 0, 0, 32768 >>

\* strtol (nptr, NULL, 10): as strtoul, but the value is LONG_MAX or LONG_MIN
\* with errno set to ERANGE when it does not fit a long.  Whether errno is
\* set to EINVAL when there is no digit is up to the C library (einval).
strtol(nptr, einval) ==
    LET i0 == SkipSpace(nptr, 1)
        signed == i0 <= Len(nptr) /\ nptr[i0] \in {43, 45}
        negative == signed /\ nptr[i0] = 45
        i1 == IF signed THEN i0 + 1 ELSE i0
        r == ScanDigits(nptr, i1, ULongZero, FALSE)
        m == r.limbs
        big == \/ r.overflow
               \/ ~negative /\ m[4] >= 32768
               \/ negative /\ (m[4] > 32768 \/ (m[4] = 32768 /\ << m[1], m[2], m[3] >> # << 0, 0, 0 >>))
        digits == i1 <= Len(nptr) /\ isdigit(nptr[i1])
    IN  [value |-> IF big THEN (IF negative THEN LONG_MIN ELSE LONG_MAX)
                   ELSE IF negative THEN ULongNegate(m)
                   ELSE m,
         errno |-> IF big THEN "ERANGE"
                   ELSE IF ~digits /\ einval THEN "EINVAL"
                   ELSE "0"]

\* (int) of a long: the conversion keeps the low 32 bits
IntOfLong(value) == GPid(value)

\* an IPv4 address (struct in_addr) as its four octets
ZeroAddr == << 0, 0, 0, 0 >>

\* one part of a dotted quad: one to three digits without a leading zero and
\* at most 255; -1 when it is not
Octet(part) ==
    IF \/ Len(part) = 0
       \/ Len(part) > 3
       \/ \E i \in 1..Len(part) : ~isdigit(part[i])
       \/ Len(part) > 1 /\ part[1] = 48
    THEN -1
    ELSE LET v == IF Len(part) = 1 THEN part[1] - 48
                  ELSE IF Len(part) = 2 THEN (part[1] - 48) * 10 + (part[2] - 48)
                  ELSE (part[1] - 48) * 100 + (part[2] - 48) * 10 + (part[3] - 48)
         IN  IF v > 255 THEN -1 ELSE v

\* inet_pton (AF_INET, src, &dst) > 0 and the address it stores
inet_pton(src) ==
    LET parts == SplitAt(src, 46)
    IN  IF Len(parts) = 4 /\ \A i \in 1..4 : Octet(parts[i]) >= 0
        THEN [ok |-> TRUE, s_addr |-> << Octet(parts[1]), Octet(parts[2]),
                                        Octet(parts[3]), Octet(parts[4]) >>]
        ELSE [ok |-> FALSE, s_addr |-> ZeroAddr]

NewRoute(dest, prefix, next_hop) ==
    [dest |-> dest, prefix |-> prefix, next_hop |-> next_hop]

\* variant: the default route's next hop (rt_route) is stored as the gateway
TakePair_next_hop(acc, rt_cidr, rt_addr, rt_route) ==
    IF rt_cidr = 0 /\ rt_addr = ZeroAddr
    THEN [acc EXCEPT !.ret = TRUE, !.gwaddr = rt_route]
    ELSE [acc EXCEPT !.ret = TRUE,
                     !.routes = Append(@, NewRoute(rt_addr, rt_cidr, rt_route))]

\* a pair that parsed: 0.0.0.0/0 sets *gwaddr, any other becomes a route
TakePair(acc, rt_cidr, rt_addr, rt_route) ==
    IF rt_cidr = 0 /\ rt_addr = ZeroAddr
    THEN [acc EXCEPT !.ret = TRUE, !.gwaddr = rt_addr]
    ELSE [acc EXCEPT !.ret = TRUE,
                     !.routes = Append(@, NewRoute(rt_addr, rt_cidr, rt_route))]

\* the loop over the pairs routes[i], routes[i + 1]
RECURSIVE ProcessPairs(_, _, _, _)
ProcessPairs(routes, i, acc, einval) ==
    IF i > Len(routes) THEN acc
    ELSE LET r == routes[i]
             slash == strchr(r, 47)
             cidr == strtol(SubSeq(r, slash + 1, Len(r)), einval)
             rt_cidr == IF slash # 0 THEN IntOfLong(cidr.value) ELSE 32
             rt_addr == inet_pton(IF slash # 0 THEN SubSeq(r, 1, slash - 1) ELSE r)
             rt_route == inet_pton(routes[i + 1])
         IN  IF slash # 0 /\ cidr.errno \in { "EINVAL", "ERANGE" }
             THEN ProcessPairs(routes, i + 2, acc, einval)
             ELSE IF ~rt_addr.ok
             THEN ProcessPairs(routes, i + 2, acc, einval)
             ELSE IF ~rt_route.ok
             THEN ProcessPairs(routes, i + 2, acc, einval)
             ELSE ProcessPairs(routes, i + 2,
                               TakePair(acc, rt_cidr, rt_addr.s_addr, rt_route.s_addr),
                               einval)

\* mutant: a stray last token is dropped and the pairs before it are parsed
real_ip4_process_classless_routes_no_parity(options, gwaddr, einval) ==
    LET str == IF ~options.new_classless_static_routes.null
               THEN options.new_classless_static_routes
               ELSE options.new_ms_classless_static_routes
        none == [ret |-> FALSE, routes |-> << >>, gwaddr |-> gwaddr]
    IN  IF str.null \/ Len(str.str) = 0 THEN none
        ELSE LET routes == g_strsplit(str.str, 32)
             IN  ProcessPairs(SubSeq(routes, 1, Len(routes) - (Len(routes) % 2)),
                              1, none, einval)

\* mutant: the Microsoft key is looked up first
real_ip4_process_classless_routes_ms_first(options, gwaddr, einval) ==
    LET str == IF ~options.new_ms_classless_static_routes.null
               THEN options.new_ms_classless_static_routes
               ELSE options.new_classless_static_routes
        none == [ret |-> FALSE, routes |-> << >>, gwaddr |-> gwaddr]
    IN  IF str.null \/ Len(str.str) = 0 THEN none
        ELSE LET routes == g_strsplit(str.str, 32)
             IN  IF Len(routes) = 0 THEN none
                 ELSE IF Len(routes) % 2 # 0 THEN none
                 ELSE ProcessPairs(routes, 1, none, einval)

\* what the function returns (ret), the routes it added to the configuration
\* and *gwaddr afterwards
real_ip4_process_classless_routes(options, gwaddr, einval) ==
    LET str == IF ~options.new_classless_static_routes.null
               THEN options.new_classless_static_routes
               ELSE options.new_ms_classless_static_routes
        none == [ret |-> FALSE, routes |-> << >>, gwaddr |-> gwaddr]
    IN  IF str.null \/ Len(str.str) = 0 THEN none
        ELSE LET routes == g_strsplit(str.str, 32)
             IN  IF Len(routes) = 0 THEN none
                 ELSE IF Len(routes) % 2 # 0 THEN none
                 ELSE ProcessPairs(routes, 1, none, einval)

\* the option decoder applied to a byte array
DecodeOption ==
    /\ op.name = "input"
    /\ output' = garray_to_string(input)
    /\ op' = Op("garray_to_string", <<>>, NULL, "")
    /\ UNCHANGED <<client_type, clients, handlers, disposed, obj, procs, calls,
                   hostVars, newVars, input, disk, sessVars>>

\* the dhcpcd back-end's classless-routes parser applied to an options hash
ProcessClasslessRoutes ==
    /\ op.name = "input"
    /\ output' = real_ip4_process_classless_routes(input.options, input.gwaddr, input.einval)
    /\ op' = Op("process_classless_routes", <<>>, NULL, "")
    /\ UNCHANGED <<client_type, clients, handlers, disposed, obj, procs, calls,
                   hostVars, newVars, input, disk, sessVars>>

----------------------------------------------------------------------------
(* Inputs *)

Selectors == { "dhclient", "dhcpcd", "udhcpc" }
Paths == { "", "/sbin/helper" }

\* "12", "13", "12x", "x", "4294967308" (2^32 + 12),
\* "18446744073709551615" (ULONG_MAX), "99999999999999999999", "-1"
PidStrings ==
    { << 49, 50 >>, << 49, 51 >>, << 49, 50, 120 >>, << 120 >>,
      << 52, 50, 57, 52, 57, 54, 55, 51, 48, 56 >>,
      << 49, 56, 52, 52, 54, 55, 52, 52, 48, 55, 51, 55, 48, 57, 53, 53, 49, 54, 49, 53 >>,
      << 57, 57, 57, 57, 57, 57, 57, 57, 57, 57, 57, 57, 57, 57, 57, 57, 57, 57, 57, 57 >>,
      << 45, 49 >> }

\* "BOUND", "FAIL", "STOP"
Reasons == { << 66, 79, 85, 78, 68 >>, << 70, 65, 73, 76 >>, << 83, 84, 79, 80 >> }

Event(i, p, r) == [interface |-> i, pid |-> p, reason |-> r]

\* "e0\0", "nak"
IfaceNul == << 101, 48, 0 >>
ReasonNak == << 110, 97, 107 >>

\* the well-formed events, and events with one field missing or malformed
Events ==
    { Event(Bytes(i), Bytes(p), Bytes(r)) :
        i \in Ifaces, p \in { << 49, 50 >>, << 49, 51 >> }, r \in Reasons }
    \cup { Event(i, Bytes(<< 49, 50 >>), Bytes(<< 66, 79, 85, 78, 68 >>)) :
             i \in { Absent, WrongType, Bytes(IfaceNul) } }
    \cup { Event(Bytes(<< 101, 48 >>), p, Bytes(<< 66, 79, 85, 78, 68 >>)) :
             p \in { Absent, WrongType } \cup { Bytes(s) : s \in PidStrings } }
    \cup { Event(Bytes(<< 101, 48 >>), Bytes(<< 49, 50 >>), r) :
             r \in { Absent, WrongType, Bytes(ReasonNak) } }

Errnos == { "0", "ERANGE" }

\* the helper paths a build can have been configured with
Builds == [dhclient_path : Paths, dhcpcd_path : Paths]

\* "x": the hostname a profile names; "h": the hostname a provider answers
Settings ==
    { NoSetting } \cup
    { Setting(send, name) : send \in BOOLEAN, name \in { NullStr, Str(<< 120 >>) } }
Hostnames == { Str(<< 104 >>), NullStr }

\* the byte arrays handed to garray_to_string
SampleBytes == { 0, 1, 32, 63, 65, 127, 128, 255 }
ByteArrays == UNION { [1..n -> SampleBytes] : n \in 0..MaxBytes }

\* "0.0.0.0/0", "10.0.0.0/8", "192.0.2.1", "0.0.0.0"
GoodDests ==
    { << 48, 46, 48, 46, 48, 46, 48, 47, 48 >>,
      << 49, 48, 46, 48, 46, 48, 46, 48, 47, 56 >>,
      << 49, 57, 50, 46, 48, 46, 50, 46, 49 >>,
      << 48, 46, 48, 46, 48, 46, 48 >> }

\* "10.0.0.0/33", "10.0.0.0/x", "0.0.0.0/x", "10.0.0/8", "10.0.0.0/-1", "10.0.0.0/99999999999999999999", "10.0.0.0/4294967296", "10.0.0.0/"
OddDests ==
    { << 49, 48, 46, 48, 46, 48, 46, 48, 47, 51, 51 >>,
      << 49, 48, 46, 48, 46, 48, 46, 48, 47, 120 >>,
      << 48, 46, 48, 46, 48, 46, 48, 47, 120 >>,
      << 49, 48, 46, 48, 46, 48, 47, 56 >>,
      << 49, 48, 46, 48, 46, 48, 46, 48, 47, 45, 49 >>,
      << 49, 48, 46, 48, 46, 48, 46, 48, 47, 57, 57, 57, 57, 57, 57, 57, 57, 57, 57, 57, 57, 57, 57, 57, 57, 57, 57, 57, 57 >>,
      << 49, 48, 46, 48, 46, 48, 46, 48, 47, 52, 50, 57, 52, 57, 54, 55, 50, 57, 54 >>,
      << 49, 48, 46, 48, 46, 48, 46, 48, 47 >> }

\* "192.0.2.254", "10.0.0.1"
GoodGateways ==
    { << 49, 57, 50, 46, 48, 46, 50, 46, 50, 53, 52 >>,
      << 49, 48, 46, 48, 46, 48, 46, 49 >> }

\* "1.2.3", "256.0.0.1", "192.0.2.01", ""
OddGateways ==
    { << 49, 46, 50, 46, 51 >>,
      << 50, 53, 54, 46, 48, 46, 48, 46, 49 >>,
      << 49, 57, 50, 46, 48, 46, 50, 46, 48, 49 >>,
      << >> }

\* the pairs an option value is made of: every destination with a good
\* gateway, and a good destination with every gateway
Pairs ==
    { << d, g >> : d \in GoodDests \cup OddDests, g \in { << 49, 57, 50, 46, 48, 46, 50, 46, 50, 53, 52 >> } }
    \cup { << d, g >> : d \in { << 48, 46, 48, 46, 48, 46, 48, 47, 48 >>, << 49, 48, 46, 48, 46, 48, 46, 48, 47, 56 >> },
                        g \in GoodGateways \cup OddGateways }

RECURSIVE Flatten(_)
Flatten(pairs) ==
    IF pairs = << >> THEN << >> ELSE Head(pairs) \o Flatten(Tail(pairs))

\* the token lists: up to MaxPairs pairs, and pairs followed by a stray token
TokenLists ==
    LET whole == UNION { { Flatten(ps) : ps \in [1..n -> Pairs] } : n \in 0..MaxPairs }
    IN  whole \cup { Append(Flatten(<< p >>), << 49, 48, 46, 48, 46, 48, 46, 48, 47, 56 >>) : p \in Pairs }

\* the tokens separated by single spaces
RECURSIVE Join(_)
Join(tokens) ==
    IF tokens = << >> THEN << >>
    ELSE IF Len(tokens) = 1 THEN Head(tokens)
    ELSE Head(tokens) \o << 32 >> \o Join(Tail(tokens))

\* "10.9.0.0/16 10.0.0.9"
MsRoutes == << 49, 48, 46, 57, 46, 48, 46, 48, 47, 49, 54, 32, 49, 48, 46, 48, 46, 48, 46, 57 >>

\* the options hash, as far as the function reads it: the value is under the
\* standard key, under the Microsoft key, or under both
RouteOptions(tokens) ==
    { [new_classless_static_routes |-> Str(Join(tokens)),
       new_ms_classless_static_routes |-> NullStr],
      [new_classless_static_routes |-> NullStr,
       new_ms_classless_static_routes |-> Str(Join(tokens))],
      [new_classless_static_routes |-> Str(Join(tokens)),
       new_ms_classless_static_routes |-> Str(MsRoutes)] }

\* *gwaddr before the call: 0.0.0.0 or 10.0.0.7
GwAddrs == { ZeroAddr, << 10, 0, 0, 7 >> }

\* the hash without either key
NoRouteOptions ==
    [new_classless_static_routes |-> NullStr, new_ms_classless_static_routes |-> NullStr]

\* einval: whether the C library's strtol reports EINVAL when it finds no digit
RouteInput(tokens, options, gwaddr, einval) ==
    [tokens |-> tokens, options |-> options, gwaddr |-> gwaddr, einval |-> einval]

\* the selectors and helper paths a manager can be constructed with
ManagerConfigs ==
    { cfg \in [client : Selectors, dhclient_path : Paths, dhcpcd_path : Paths] :
        nm_dhcp_manager_new(cfg.client, cfg.dhclient_path, cfg.dhcpcd_path).ok }

----------------------------------------------------------------------------
(* The dhcpcd client: start and stop (nm-dhcp-dhcpcd.c) *)

\* n >= 0 written in decimal
RECURSIVE Decimal(_)
Decimal(n) == IF n < 10 THEN << 48 + n >> ELSE Append(Decimal(n \div 10), 48 + (n % 10))

\* nothing has been handed to the function under study
Idle == << >>

\* DHCPCD_PATH: "/sbin/dhcpcd"
DHCPCD_PATH == << 47, 115, 98, 105, 110, 47, 100, 104, 99, 112, 99, 100 >>

\* the PID files of the interfaces
PidPaths == { PidFileOf(NM_TYPE_DHCP_DHCPCD, iface).str : iface \in Ifaces }

\* a disk on which none of the files exists; a file that exists holds a text
NoFiles == [path \in PidPaths \cup {DHCPCD_PATH} |-> NullStr]

\* g_file_test (path, G_FILE_TEST_EXISTS)
g_file_test(d, path) == ~d[path].null

\* remove (path)
remove(d, path) == [d EXCEPT ![path] = NullStr]

\* g_path_get_basename: what follows the last '/'
g_path_get_basename(path) ==
    LET slashes == { i \in DOMAIN path : path[i] = 47 }
    IN  IF slashes = {} THEN path
        ELSE SubSeq(path, (CHOOSE i \in slashes : \A j \in slashes : j <= i) + 1, Len(path))

\* the PID a PID file holds; 0 when the file is absent or holds no PID
PidInFile(d, path) ==
    IF d[path].null THEN 0
    ELSE LET n == GPid(strtoul(d[path].str).value)
         IN  IF n \in Pids /\ d[path].str = Decimal(n) THEN n ELSE 0

\* nm_dhcp_client_stop_existing: the helper of the expected name whose PID
\* the file holds is killed, then the file is deleted
nm_dhcp_client_stop_existing(d, ps, pid_file, binary_name) ==
    LET pid == PidInFile(d, pid_file)
    IN  [disk |-> remove(d, pid_file),
         procs |-> ps \ {pid},
         calls |-> IF pid \in ps THEN << Call("kill", pid, NoArg) >> ELSE <<>>]

\* mutant: the helper is spawned with the old one left running, and without
\* a look at the binary
real_ip4_start_blind(o, d, ps, c, spawned, pid) ==
    [ret |-> IF spawned THEN pid ELSE 0,
     obj |-> [o EXCEPT ![c].pid_file = PidFileOf(NM_TYPE_DHCP_DHCPCD, o[c].iface)],
     disk |-> d,
     procs |-> IF spawned THEN ps \cup {pid} ELSE ps,
     calls |-> << Call("g_spawn_async", c, NoArg) >>]

\* real_ip4_start: the PID of the helper it spawned, 0 when the spawn failed,
\* -1 when the client was started before or the binary is missing
real_ip4_start(o, d, ps, c, spawned, pid) ==
    LET pid_file == PidFileOf(NM_TYPE_DHCP_DHCPCD, o[c].iface)
        o1 == [o EXCEPT ![c].pid_file = pid_file]
        binary_name == g_path_get_basename(DHCPCD_PATH)
        old == nm_dhcp_client_stop_existing(d, ps, pid_file.str, binary_name)
    IN  IF ~o[c].pid_file.null
        THEN [ret |-> -1, obj |-> o, disk |-> d, procs |-> ps, calls |-> <<>>]
        ELSE IF ~g_file_test(d, DHCPCD_PATH)
        THEN [ret |-> -1, obj |-> o1, disk |-> d, procs |-> ps, calls |-> <<>>]
        ELSE [ret |-> IF spawned THEN pid ELSE 0,
              obj |-> o1,
              disk |-> old.disk,
              procs |-> IF spawned THEN old.procs \cup {pid} ELSE old.procs,
              calls |-> << Call("nm_dhcp_client_stop_existing", c, NoArg) >>
                        \o old.calls \o << Call("g_spawn_async", c, NoArg) >>]

\* mutant: the PID file is left on the disk
real_stop_keep_file(o, d, ps, c) ==
    [obj |-> nm_dhcp_client_stop(o, c), disk |-> d, procs |-> StopProcs(o, c, ps),
     calls |-> << Call("stop", c, NoArg) >>]

\* real_stop: the base class stops the helper, then the PID file is removed
real_stop(o, d, ps, c) ==
    IF ~o[c].pid_file.null
    THEN [obj |-> nm_dhcp_client_stop(o, c),
          disk |-> remove(d, o[c].pid_file.str),
          procs |-> StopProcs(o, c, ps),
          calls |-> << Call("stop", c, NoArg), Call("remove", c, NoArg) >>]
    ELSE [obj |-> nm_dhcp_client_stop(o, c),
          disk |-> d,
          procs |-> StopProcs(o, c, ps),
          calls |-> << Call("stop", c, NoArg) >>]

\* g_object_new (NM_TYPE_DHCP_DHCPCD, NM_DHCP_CLIENT_INTERFACE, iface, NULL)
DhcpcdNew(iface) ==
    /\ Cardinality({ c \in ClientIds : obj[c].alloc }) < MaxDhcpcd
    /\ obj' = [obj EXCEPT ![NewClient(obj)] = NewObj(NM_TYPE_DHCP_DHCPCD, iface)]
    /\ op' = Op("client_new", iface, NewClient(obj), "")
    /\ calls' = <<>>
    /\ output' = Idle
    /\ UNCHANGED <<client_type, clients, handlers, disposed, procs,
                   hostVars, newVars, input, disk, sessVars>>

\* the client's ip4_start; the kernel hands a spawned helper a PID that no
\* process holds; the base class watches a helper that was spawned and arms
\* the timeout
DhcpcdStart(c, spawned, pid) ==
    /\ obj[c].alloc
    /\ pid \notin procs
    /\ LET r == real_ip4_start(obj, disk, procs, c, spawned, pid)
       IN  /\ obj' = IF r.ret > 0
                     THEN [r.obj EXCEPT ![c].pid = r.ret, ![c].timer = TRUE,
                                        ![c].watch = TRUE]
                     ELSE r.obj
           /\ disk' = r.disk
           /\ procs' = r.procs
           /\ calls' = r.calls
           /\ output' = r.ret
    /\ op' = Op("ip4_start", obj[c].iface, c, "")
    /\ UNCHANGED <<client_type, clients, handlers, disposed,
                   hostVars, newVars, input, sessVars>>

\* the client's stop
DhcpcdStop(c) ==
    /\ obj[c].alloc
    /\ LET r == real_stop(obj, disk, procs, c)
       IN  /\ obj' = r.obj
           /\ disk' = r.disk
           /\ procs' = r.procs
           /\ calls' = r.calls
    /\ output' = Idle
    /\ op' = Op("stop", obj[c].iface, c, "")
    /\ UNCHANGED <<client_type, clients, handlers, disposed,
                   hostVars, newVars, input, sessVars>>

\* the helper a client watches writes its PID to the interface's PID file
HelperWritesPid(c) ==
    /\ obj[c].alloc
    /\ obj[c].watch
    /\ obj[c].pid \in procs
    /\ disk' = [disk EXCEPT ![obj[c].pid_file.str] = Str(Decimal(obj[c].pid))]
    /\ op' = Op("write_pid", obj[c].iface, c, "")
    /\ calls' = <<>>
    /\ output' = Idle
    /\ UNCHANGED <<client_type, clients, handlers, disposed, obj, procs,
                   hostVars, newVars, input, sessVars>>

\* the daemon restarts: its client objects are gone, the helpers and the
\* PID files stay
Restart ==
    /\ \E c \in ClientIds : obj[c].alloc
    /\ obj' = [c \in ClientIds |-> FreeObj]
    /\ op' = Op("restart", <<>>, NULL, "")
    /\ calls' = <<>>
    /\ output' = Idle
    /\ UNCHANGED <<client_type, clients, handlers, disposed, procs,
                   hostVars, newVars, input, disk, sessVars>>

----------------------------------------------------------------------------
(* Lease configurations (nm-dhcp-manager.c, nm-dhcp-dhcpcd.c) *)

\* mutant: the dhcpcd back-end reads a lease
nm_dhcp_dhcpcd_get_lease_config_reads(iface, uuid) == << uuid >>

\* nm_dhcp_dhcpcd_get_lease_config: return NULL, the empty list
nm_dhcp_dhcpcd_get_lease_config(iface, uuid) == << >>

\* nm_dhcp_dhclient_get_lease_config: the configurations read from the lease
\* file of the interface and the connection
nm_dhcp_dhclient_get_lease_config(iface, uuid, leases) == leases

\* priv->get_lease_config_func, set together with priv->client_type
get_lease_config_func(type) ==
    IF type = NM_TYPE_DHCP_DHCLIENT THEN "nm_dhcp_dhclient_get_lease_config"
    ELSE "nm_dhcp_dhcpcd_get_lease_config"

\* nm_dhcp_manager_get_lease_config on the manager object self
nm_dhcp_manager_get_lease_config(self, iface, uuid, leases) ==
    /\ managers[self].alive
    /\ input' = [iface |-> iface, uuid |-> uuid, leases |-> leases]
    /\ IF iface.null \/ uuid.null
       THEN /\ output' = << >>
            /\ calls' = <<>>
       ELSE LET func == get_lease_config_func(managers[self].client_type)
            IN  /\ calls' = << Call(func, self, NoArg) >>
                /\ output' = IF func = "nm_dhcp_dhclient_get_lease_config"
                             THEN nm_dhcp_dhclient_get_lease_config(iface.str, uuid.str, leases)
                             ELSE nm_dhcp_dhcpcd_get_lease_config(iface.str, uuid.str)
    /\ op' = Op("get_lease_config", iface.str, self, "")
    /\ UNCHANGED <<client_type, clients, handlers, disposed, obj, procs,
                   hostVars, newVars, disk, sessVars>>

----------------------------------------------------------------------------
(* The session monitor (nm-session-monitor.c) *)

\* g_set_error: stores the error unless the location is NULL; "none" is a
\* location that holds no error
g_set_error(has_loc, code) == IF has_loc THEN code ELSE "none"

\* a key of a group of the key file: absent, holding text that does not parse
\* as the type asked for, or holding a value
KeyValue(present, valid, value) == [present |-> present, valid |-> valid, value |-> value]

\* getpwuid: the users of the password database
getpwuid(uid) ==
    IF uid = 1000 THEN Str("alice")
    ELSE IF uid = 1001 THEN Str("bob")
    ELSE IF uid = 1002 THEN Str("carol")
    ELSE NullStr

\* a Session; NoSession is NULL
NoSession == [null |-> TRUE, user |-> "", uid |-> 0, local |-> FALSE, active |-> FALSE]

\* check_key: whether the group has the key; the error is stored only when
\* the location is NULL, that is never
check_key(group, key, has_loc) ==
    IF group[key].present THEN [ok |-> TRUE, error |-> "none"]
    ELSE [ok |-> FALSE,
          error |-> IF ~has_loc THEN g_set_error(has_loc, "MALFORMED_DATABASE")
                    ELSE "none"]

\* g_key_file_get_integer, g_key_file_get_boolean: the value, or the zero of
\* the type and an error when the text does not parse
g_key_file_get(group, key, has_loc) ==
    IF group[key].valid THEN [value |-> group[key].value, error |-> "none"]
    ELSE [value |-> group[key].value, error |-> g_set_error(has_loc, "KEY_FILE_INVALID_VALUE")]

\* session_new: the Session of a group, or NULL.  "if (error) goto error"
\* tests the location, so with a location every group fails after its uid
\* has been read
session_new(group, has_loc) ==
    LET k1 == check_key(group, "uid", has_loc)
        uid == g_key_file_get(group, "uid", has_loc)
        k2 == check_key(group, "is_active", has_loc)
        active == g_key_file_get(group, "is_active", has_loc)
        k3 == check_key(group, "is_local", has_loc)
        local == g_key_file_get(group, "is_local", has_loc)
        pw == getpwuid(uid.value)
    IN  IF ~k1.ok THEN [s |-> NoSession, error |-> k1.error]
        ELSE IF has_loc THEN [s |-> NoSession, error |-> uid.error]
        ELSE IF ~k2.ok THEN [s |-> NoSession, error |-> k2.error]
        ELSE IF ~k3.ok THEN [s |-> NoSession, error |-> k3.error]
        ELSE IF pw.null THEN [s |-> NoSession, error |-> g_set_error(has_loc, "UNKNOWN_USER")]
        ELSE [s |-> [null |-> FALSE, user |-> pw.str, uid |-> uid.value,
                     local |-> local.value, active |-> active.value],
              error |-> "none"]

\* the users and UIDs that are asked about; 1003 has no password entry
Users == { "alice", "bob", "carol" }
Uids == { 1000, 1001, 1002, 1003 }

\* free_database: no key file, both tables empty
free_database(mon) ==
    [mon EXCEPT !.database = FALSE,
                !.sessions_by_uid = [uid \in Uids |-> NoSession],
                !.sessions_by_user = [user \in Users |-> NoSession]]

\* the loop of reload_database over the groups from the i-th on
RECURSIVE LoadGroups(_, _, _, _)
LoadGroups(mon, groups, i, has_loc) ==
    IF i > Len(groups) THEN [ok |-> TRUE, monitor |-> mon, error |-> "none"]
    ELSE IF ~groups[i].session THEN LoadGroups(mon, groups, i + 1, has_loc)
    ELSE LET r == session_new(groups[i], has_loc)
         IN  IF r.s.null THEN [ok |-> FALSE, monitor |-> mon, error |-> r.error]
             ELSE LoadGroups([mon EXCEPT !.sessions_by_user[r.s.user] = r.s,
                                         !.sessions_by_uid[r.s.uid] = r.s],
                             groups, i + 1, has_loc)

\* reload_database.  When stat or the parser fails, "groups" is read before
\* it has been assigned: garbage tells whether that read finds a pointer,
\* which g_strfreev then frees, or NULL
reload_database(mon, db, has_loc, garbage) ==
    LET m0 == free_database(mon)
        m1 == [m0 EXCEPT !.database_mtime = db.mtime, !.database = TRUE]
        loaded == LoadGroups(m1, db.groups, 1, has_loc)
    IN  IF ~db.exists
        THEN [ok |-> FALSE, monitor |-> free_database(m0),
              error |-> g_set_error(has_loc, "IO_ERROR"), aborted |-> garbage,
              calls |-> << Call("reload_database", NULL, NoArg) >>]
        ELSE IF ~db.parses
        THEN [ok |-> FALSE, monitor |-> free_database(m1),
              error |-> g_set_error(has_loc, "KEY_FILE_PARSE"), aborted |-> garbage,
              calls |-> << Call("reload_database", NULL, NoArg) >>]
        ELSE IF ~loaded.ok
        THEN [ok |-> FALSE, monitor |-> free_database(loaded.monitor),
              error |-> loaded.error, aborted |-> FALSE,
              calls |-> << Call("reload_database", NULL, NoArg) >>]
        ELSE [ok |-> TRUE, monitor |-> loaded.monitor, error |-> "none",
              aborted |-> FALSE,
              calls |-> << Call("reload_database", NULL, NoArg) >>]

\* mutant: a cached database is used whatever the file's mtime
ensure_database_any_mtime(mon, db, has_loc, garbage) ==
    IF mon.database /\ ~db.exists
    THEN [ok |-> FALSE, monitor |-> mon, error |-> g_set_error(has_loc, "IO_ERROR"),
          aborted |-> FALSE, calls |-> << >>]
    ELSE IF mon.database
    THEN [ok |-> TRUE, monitor |-> mon, error |-> "none", aborted |-> FALSE,
          calls |-> << >>]
    ELSE reload_database(mon, db, has_loc, garbage)

\* ensure_database: the cache is kept while the file's mtime is the cached one
ensure_database(mon, db, has_loc, garbage) ==
    IF mon.database /\ ~db.exists
    THEN [ok |-> FALSE, monitor |-> mon, error |-> g_set_error(has_loc, "IO_ERROR"),
          aborted |-> FALSE, calls |-> << >>]
    ELSE IF mon.database /\ db.mtime = mon.database_mtime
    THEN [ok |-> TRUE, monitor |-> mon, error |-> "none", aborted |-> FALSE,
          calls |-> << >>]
    ELSE reload_database(mon, db, has_loc, garbage)

\* the four queries: query is the function called, who its username or uid
\* argument; the has_session queries answer TRUE for any session, the active
\* queries answer the session's flag
SessionQuery(query, who, has_loc, garbage) ==
    /\ monitor.alive
    /\ LET e == ensure_database(monitor, ckdb, has_loc, garbage)
           s == IF query \in { "user_has_session", "user_active" }
                THEN e.monitor.sessions_by_user[who]
                ELSE e.monitor.sessions_by_uid[who]
       IN  /\ monitor' = [e.monitor EXCEPT !.alive = ~e.aborted]
           /\ output' =
                 IF e.aborted \/ ~e.ok
                 THEN [aborted |-> e.aborted, ret |-> FALSE, error |-> e.error]
                 ELSE IF s.null
                 THEN [aborted |-> FALSE, ret |-> FALSE,
                       error |-> g_set_error(has_loc, "UNKNOWN_USER")]
                 ELSE [aborted |-> FALSE,
                       ret |-> IF query \in { "user_active", "uid_active" }
                               THEN s.active ELSE TRUE,
                       error |-> "none"]
           /\ calls' = e.calls
    /\ input' = [who |-> who, has_loc |-> has_loc]
    /\ op' = Op(query, <<>>, NULL, "")
    /\ UNCHANGED <<client_type, clients, handlers, disposed, obj, procs,
                   hostVars, newVars, disk, ckdb>>

\* on_file_monitor_changed: the cache is thrown away and "changed" is emitted
on_file_monitor_changed ==
    /\ monitor.alive
    /\ monitor' = free_database(monitor)
    /\ op' = Op("file_changed", <<>>, NULL, "")
    /\ calls' = << Call("changed", NULL, NoArg) >>
    /\ output' = Idle
    /\ UNCHANGED <<client_type, clients, handlers, disposed, obj, procs,
                   hostVars, newVars, input, disk, ckdb>>

\* ConsoleKit writes its database, or removes it
DatabaseWritten(db) ==
    /\ monitor.alive
    /\ db # ckdb
    /\ ckdb' = db
    /\ op' = Op("database_written", <<>>, NULL, "")
    /\ calls' = <<>>
    /\ output' = Idle
    /\ UNCHANGED <<client_type, clients, handlers, disposed, obj, procs,
                   hostVars, newVars, input, disk, monitor>>

\* the databases ConsoleKit can leave; a group is a "Session " group or
\* another one, with its keys.  There is none, one that does not parse, and
\* some with the sessions of alice (active) and bob (inactive), a seat group,
\* and sessions without uid, with a uid that is no number, with the uid of
\* no user, and without is_active
Databases ==
    LET Group(session, uid, is_active, is_local) ==
            [session |-> session, uid |-> uid, is_active |-> is_active,
             is_local |-> is_local]
        yes == KeyValue(TRUE, TRUE, TRUE)
        no == KeyValue(TRUE, TRUE, FALSE)
        alice == Group(TRUE, KeyValue(TRUE, TRUE, 1000), yes, yes)
        bob == Group(TRUE, KeyValue(TRUE, TRUE, 1001), no, yes)
        seat == Group(FALSE, KeyValue(FALSE, FALSE, 0), KeyValue(FALSE, FALSE, FALSE),
                      KeyValue(FALSE, FALSE, FALSE))
        nouid == Group(TRUE, KeyValue(FALSE, FALSE, 0), yes, yes)
        baduid == Group(TRUE, KeyValue(TRUE, FALSE, 0), yes, yes)
        stranger == Group(TRUE, KeyValue(TRUE, TRUE, 1003), yes, yes)
        noactive == Group(TRUE, KeyValue(TRUE, TRUE, 1001), KeyValue(FALSE, FALSE, FALSE), yes)
        lists == { << >>, << alice >>, << bob >>, << alice, bob >>, << seat >>,
                   << seat, alice >>, << nouid >>, << baduid >>, << stranger >>,
                   << alice, noactive >> }
    IN  { [exists |-> FALSE, parses |-> FALSE, mtime |-> 0, groups |-> << >>] }
        \cup { [exists |-> TRUE, parses |-> FALSE, mtime |-> t, groups |-> << >>] :
                  t \in { 1, 2 } }
        \cup { [exists |-> TRUE, parses |-> TRUE, mtime |-> t, groups |-> g] :
                  t \in { 1, 2 }, g \in lists }

----------------------------------------------------------------------------
(* Specification *)

\* nm_session_monitor_init, when it finds no database: nothing is cached
NoMonitor ==
    /\ monitor = free_database([alive |-> TRUE, database |-> FALSE, database_mtime |-> 0,
                                sessions_by_uid |-> << >>, sessions_by_user |-> << >>])
    /\ ckdb \in { db \in Databases : ~db.exists }

\* a build that found both helpers
InstalledBuild == [dhclient_path |-> "/sbin/helper", dhcpcd_path |-> "/sbin/helper"]

\* the state after a successful nm_dhcp_manager_new
Init ==
    /\ build = InstalledBuild
    /\ \E cfg \in ManagerConfigs :
         /\ cfg.dhclient_path = build.dhclient_path
         /\ cfg.dhcpcd_path = build.dhcpcd_path
         /\ client_type =
               nm_dhcp_manager_new(cfg.client, cfg.dhclient_path, cfg.dhcpcd_path).client_type
    /\ singleton = 1
    /\ managers = [m \in ManagerIds |->
                     IF m = 1
                     THEN [alive |-> TRUE, client_type |-> client_type, proxy |-> TRUE,
                           ref_count |-> 1]
                     ELSE FreeManager]
    /\ hostname_provider = NULL
    /\ providers = Providers
    /\ weak_refs = {}
    /\ input = Idle
    /\ output = Idle
    /\ clients = {}
    /\ handlers = {}
    /\ disposed = FALSE
    /\ obj = [c \in ClientIds |-> FreeObj]
    /\ procs = {}
    /\ op = Op("new", <<>>, NULL, "")
    /\ calls = <<>>
    /\ disk = NoFiles
    /\ NoMonitor

Next ==
    \/ \E iface \in Ifaces, pid \in Pids :
         nm_dhcp_manager_start_client(iface, NoSetting, NullStr, TRUE, pid)
    \/ \E iface \in Ifaces :
         nm_dhcp_manager_start_client(iface, NoSetting, NullStr, FALSE, 0)
    \/ \E options \in Events, errno \in Errnos : nm_dhcp_manager_handle_event(options, errno)
    \/ \E pid \in Pids, s \in { DHC_END, DHC_ABEND } : HelperExit(pid, s)
    \/ \E c \in ClientIds : ClientTimeout(c)
    \/ dispose

Spec == Init /\ [][Next]_vars

\* the manager with its hostname provider: starts with every kind of
\* settings, on the one interface "e0"
NextHost ==
    \/ \E s_ip4 \in Settings, hostname \in Hostnames, pid \in Pids :
         nm_dhcp_manager_start_client(<< 101, 48 >>, s_ip4, hostname, TRUE, pid)
    \/ \E s_ip4 \in Settings, hostname \in Hostnames :
         nm_dhcp_manager_start_client(<< 101, 48 >>, s_ip4, hostname, FALSE, 0)
    \/ \E provider \in providers \cup {NULL} :
         nm_dhcp_manager_set_hostname_provider(provider)
    \/ \E provider \in providers : ProviderDestroyed(provider)
    \/ dispose

SpecHost == Init /\ [][NextHost]_vars

\* the process before any manager exists
InitNew ==
    /\ build \in Builds
    /\ singleton = NULL
    /\ managers = [m \in ManagerIds |-> FreeManager]
    /\ client_type = ""
    /\ clients = {}
    /\ handlers = {}
    /\ disposed = FALSE
    /\ obj = [c \in ClientIds |-> FreeObj]
    /\ procs = {}
    /\ hostname_provider = NULL
    /\ providers = Providers
    /\ weak_refs = {}
    /\ input = Idle
    /\ output = Idle
    /\ op = Op("init", <<>>, NULL, "")
    /\ calls = <<>>
    /\ disk = NoFiles
    /\ NoMonitor

\* no manager is involved: a function is handed its argument
Dormant ==
    /\ build = InstalledBuild
    /\ singleton = NULL
    /\ managers = [m \in ManagerIds |-> FreeManager]
    /\ client_type = ""
    /\ clients = {}
    /\ handlers = {}
    /\ disposed = FALSE
    /\ obj = [c \in ClientIds |-> FreeObj]
    /\ procs = {}
    /\ hostname_provider = NULL
    /\ providers = {}
    /\ weak_refs = {}
    /\ output = Idle
    /\ op = Op("input", <<>>, NULL, "")
    /\ calls = <<>>
    /\ disk = NoFiles
    /\ NoMonitor

InitDecode == Dormant /\ input \in ByteArrays
NextDecode == DecodeOption
SpecDecode == InitDecode /\ [][NextDecode]_vars

InitRoutes ==
    /\ Dormant
    /\ \/ \E tokens \in TokenLists, gwaddr \in GwAddrs, einval \in BOOLEAN :
            \E options \in RouteOptions(tokens) :
               input = RouteInput(tokens, options, gwaddr, einval)
       \/ \E gwaddr \in GwAddrs :
            input = RouteInput(<< >>, NoRouteOptions, gwaddr, FALSE)
NextRoutes == ProcessClasslessRoutes
SpecRoutes == InitRoutes /\ [][NextRoutes]_vars

NextNew ==
    \/ \E client \in Selectors : ManagerNew(client)
    \/ nm_dhcp_manager_get
    \* asked of the manager singleton names, with the UUID "u" or none, while
    \* the lease file holds nothing or one lease
    \/ \E self \in {singleton} \ {NULL}, iface \in { NullStr } \cup { Str(i) : i \in Ifaces },
          uuid \in { NullStr, Str(<< 117 >>) }, leases \in { << >>, << "lease" >> } :
         nm_dhcp_manager_get_lease_config(self, iface, uuid, leases)

SpecNew == InitNew /\ [][NextNew]_vars

\* the dhcpcd clients of a daemon that finds helpers and PID files an earlier
\* daemon left behind; a PID file can hold text that is no PID: "x"
InitDhcpcd ==
    /\ build = InstalledBuild
    /\ singleton = NULL
    /\ managers = [m \in ManagerIds |-> FreeManager]
    /\ client_type = ""
    /\ clients = {}
    /\ handlers = {}
    /\ disposed = FALSE
    /\ obj = [c \in ClientIds |-> FreeObj]
    /\ procs \in SUBSET Pids
    /\ hostname_provider = NULL
    /\ providers = {}
    /\ weak_refs = {}
    /\ input = Idle
    /\ output = Idle
    /\ op = Op("init", <<>>, NULL, "")
    /\ calls = <<>>
    /\ NoMonitor
    /\ \E binary \in { NullStr, Str(<<>>) } :
       \E files \in [PidPaths -> { NullStr, Str(<< 120 >>) } \cup { Str(Decimal(p)) : p \in Pids }] :
          disk = [path \in PidPaths \cup {DHCPCD_PATH} |->
                    IF path = DHCPCD_PATH THEN binary ELSE files[path]]

NextDhcpcd ==
    \/ \E iface \in Ifaces : DhcpcdNew(iface)
    \/ \E c \in ClientIds, pid \in Pids : DhcpcdStart(c, TRUE, pid)
    \/ \E c \in ClientIds : DhcpcdStart(c, FALSE, 0)
    \/ \E c \in ClientIds : DhcpcdStop(c)
    \/ \E c \in ClientIds : HelperWritesPid(c)
    \/ \E pid \in Pids, s \in { DHC_END, DHC_ABEND } : HelperExit(pid, s)
    \/ Restart

SpecDhcpcd == InitDhcpcd /\ [][NextDhcpcd]_vars

\* the session monitor of a daemon that started before ConsoleKit wrote its
\* database
InitSession == Dormant /\ input = Idle

NextSession ==
    \/ \E username \in Users, has_loc \in BOOLEAN, garbage \in BOOLEAN :
         SessionQuery("user_has_session", username, has_loc, garbage)
    \/ \E uid \in Uids, has_loc \in BOOLEAN, garbage \in BOOLEAN :
         SessionQuery("uid_has_session", uid, has_loc, garbage)
    \/ \E username \in Users, has_loc \in BOOLEAN, garbage \in BOOLEAN :
         SessionQuery("user_active", username, has_loc, garbage)
    \/ \E uid \in Uids, has_loc \in BOOLEAN, garbage \in BOOLEAN :
         SessionQuery("uid_active", uid, has_loc, garbage)
    \/ on_file_monitor_changed
    \/ \E db \in Databases : DatabaseWritten(db)

SpecSession == InitSession /\ [][NextSession]_vars

----------------------------------------------------------------------------
(* Properties of the manager *)

\* the calls of new_options in a call log
Forwards(log) == { i \in DOMAIN log : log[i].fn = "nm_dhcp_client_new_options" }

IsForward(call) == call.fn = "nm_dhcp_client_new_options"
ForwardCalls(log) == SelectSeq(log, IsForward)


\* the registered clients of an interface
ClientsOf(registry, o, iface) == { c \in registry : o[c].iface = iface }

\* the last step was a start_client that found an old client for its interface
Replaced ==
    /\ op.name = "start_client"
    /\ Len(calls) >= 1
    /\ calls[1].fn = "nm_dhcp_client_stop"

Terminal == { DHC_ABEND, DHC_END }

\* C1: no two distinct clients in the registry have the same interface name.
C1_UniqueInterface ==
    \A c, d \in clients : c # d => obj[c].iface # obj[d].iface

\* two clients are registered, and the last start replaced an old client
C1_Witness ==
    /\ Cardinality(clients) = 2
    /\ Replaced

\* C2: a start_client for an interface that has a registered client stops
\* that client, then removes it, and only then adds the new client; after the
\* call the old client is not in the registry, whether the start succeeded
\* or not.
C2_OldClientReplaced ==
    [][ \A old \in clients :
          (op'.name = "start_client" /\ op'.iface = obj[old].iface) =>
             /\ old \notin clients'
             /\ Len(calls') >= 4
             /\ calls'[1] = Call("nm_dhcp_client_stop", old, NoArg)
             /\ calls'[2] = Call("remove_client", old, NoArg)
             /\ calls'[3].fn = "add_client"
             /\ calls'[3].client # old
             /\ \A i \in DOMAIN calls' : calls'[i].fn = "add_client" => i = 3 ]_vars

\* a start that replaced an old client and failed to spawn the new helper
C2_Witness ==
    /\ Replaced
    /\ op.client = NULL

\* C3: the clients start_client constructs are of the back-end type selected
\* when the manager was created.
C3_ClientOfSelectedType ==
    \A c \in ClientIds : obj[c].alloc => obj[c].type = client_type

\* C4: an event is forwarded only to a client that is in the registry at that
\* moment, whose PID is the number in the event's pid field and whose interface
\* is the event's interface field.
C4_ForwardedToItsClient ==
    [][ \A i \in Forwards(calls') :
          LET c == calls'[i].client
              ev == calls'[i].arg
          IN  /\ c \in clients
              /\ ev.pid.data = Decimal(obj[c].pid)
              /\ ev.interface.data = obj[c].iface ]_vars

\* the digits of ULONG_MAX, 18446744073709551615
UlongMaxDigits ==
    << 49, 56, 52, 52, 54, 55, 52, 52, 48, 55, 51, 55, 48, 57, 53, 53, 49, 54, 49, 53 >>

\* s < t for digit strings of the same length
RECURSIVE DigitsLess(_, _)
DigitsLess(s, t) ==
    IF s = <<>> THEN FALSE
    ELSE IF Head(s) # Head(t) THEN Head(s) < Head(t)
    ELSE DigitsLess(Tail(s), Tail(t))

\* s is an unsigned decimal number in the range of unsigned long
ValidPid(s) ==
    /\ s # <<>>
    /\ \A i \in DOMAIN s : s[i] \in 48..57
    /\ \/ Len(s) < Len(UlongMaxDigits)
       \/ Len(s) = Len(UlongMaxDigits) /\ (s = UlongMaxDigits \/ DigitsLess(s, UlongMaxDigits))

\* C5: an event whose pid field is not a valid unsigned decimal number is not
\* forwarded to any client.
C5_BadPidRejected ==
    \A i \in Forwards(calls) : ValidPid(calls[i].arg.pid.data)

\* C6: an event that is dropped leaves the registry, the handlers and every
\* client as they were.
C6_DroppedEventChangesNothing ==
    [][ (op'.name = "handle_event" /\ Forwards(calls') = {}) =>
          /\ clients' = clients
          /\ handlers' = handlers
          /\ obj' = obj
          /\ procs' = procs ]_vars

\* an event was dropped while clients were registered
C6_Witness ==
    /\ op.name = "handle_event"
    /\ Forwards(calls) = {}
    /\ Cardinality(clients) = 2

\* the event carries interface, pid and reason, and its pid and interface are
\* those of the registered client c
Eligible(ev, c) ==
    /\ ev.interface.kind = "bytes"
    /\ ev.pid.kind = "bytes"
    /\ ev.reason.kind = "bytes"
    /\ c \in clients
    /\ ev.pid.data = Decimal(obj[c].pid)
    /\ ev.interface.data = obj[c].iface

\* C7: an event that carries interface, pid and reason and whose pid belongs
\* to a registered client with the same interface is forwarded to that client
\* exactly once, within the handling of that very event (so that events reach
\* a client in the order the bus delivered them).
C7_EligibleEventForwardedOnce ==
    [][ op'.name = "handle_event" =>
          \A c \in clients, ev \in Events :
             Eligible(ev, c) =>
                \A errno \in Errnos :
                   nm_dhcp_manager_handle_event(ev, errno) =>
                      ForwardCalls(calls') = << Call("nm_dhcp_client_new_options", c, ev) >> ]_vars

\* an event was forwarded to a client that is still registered
C7_Witness ==
    /\ op.name = "handle_event"
    /\ \E i \in Forwards(calls) : calls[i].client \in clients

\* C8: a client that has emitted state-changed with ABEND or END is not in
\* the registry afterwards, and no event is forwarded to it any more.
C8_TerminalClientGone ==
    /\ [](\A c \in clients : obj[c].state \notin Terminal)
    /\ [][ \A i \in Forwards(calls') : obj[calls'[i].client].state \notin Terminal ]_vars

\* a registered client has emitted END and is out of the registry, its helper
\* still running
C8_Witness ==
    \E c \in ClientIds :
        /\ obj[c].alloc
        /\ obj[c].state = DHC_END
        /\ c \notin clients
        /\ calls = << Call("nm_dhcp_client_new_options", c, calls[1].arg),
                      Call("remove_client", c, NoArg) >>

\* the state a forwarded event makes its client enter; NULL when none
EnteredBy(call) == ReasonToState(garray_to_string(call.arg.reason.data))

\* C9 as stated: a registered client that enters ABEND, END, TIMEOUT or FAIL
\* is removed from the registry.
C9_RemovedOnAnyFinalState ==
    \A c \in clients : obj[c].state \notin { DHC_ABEND, DHC_END, DHC_TIMEOUT, DHC_FAIL }

\* C9, amended: a registered client whose state-changed signal announces
\* ABEND or END, or whose timeout signal announces TIMEOUT, is removed from
\* the registry; a client whose state-changed signal announces FAIL stays in
\* the registry.
C9_RemovedOnAbendOrEnd ==
    /\ op.name = "state_changed" /\ op.arg \in Terminal => op.client \notin clients
    /\ op.name = "timeout" => op.client \notin clients
    /\ \A i \in Forwards(calls) :
         LET s == EnteredBy(calls[i])
         IN  /\ (~s.null /\ s.str \in Terminal) => calls[i].client \notin clients
             /\ (~s.null /\ s.str = DHC_FAIL) => calls[i].client \in clients

\* a helper exit made a registered client emit ABEND, and the client was removed
C9_Witness ==
    /\ op.name = "state_changed"
    /\ op.arg = DHC_ABEND
    /\ calls = << Call("remove_client", op.client, NoArg) >>

\* C10: when the timer of a registered client fires, the client is removed
\* from the registry, and the registry holds no client for its interface
\* until the next start_client for that interface.
C10_TimeoutRemovesClient ==
    [][ /\ (op'.name = "timeout" /\ op'.client \in clients) =>
             /\ op'.client \notin clients'
             /\ ClientsOf(clients', obj', obj[op'.client].iface) = {}
        /\ \A iface \in Ifaces :
             (ClientsOf(clients, obj, iface) = {} /\ ClientsOf(clients', obj', iface) # {}) =>
                (op'.name = "start_client" /\ op'.iface = iface) ]_vars

\* the timer of a registered client fired and the client was removed
C10_Witness ==
    /\ op.name = "timeout"
    /\ calls = << Call("remove_client", op.client, NoArg) >>

\* C11 (as stated): a start_client whose helper could not be spawned returns
\* no client and never adds the failed client to the registry.
C11_FailedClientNeverAdded ==
    (op.name = "start_client" /\ op.arg = "spawn-failed") =>
        /\ op.client = NULL
        /\ \A i \in DOMAIN calls : calls[i].fn # "add_client"

\* C11 (amended): a start_client whose helper could not be spawned returns no
\* client; the client it registered before the spawn attempt is removed again
\* before the call returns, so the registry gains no member by the call.
C11_FailedClientRemoved ==
    [][ (op'.name = "start_client" /\ op'.arg = "spawn-failed") =>
            /\ op'.client = NULL
            /\ clients' \subseteq clients
            /\ \A i \in DOMAIN calls' :
                 calls'[i].fn = "add_client" =>
                    /\ calls'[i].client \notin clients'
                    /\ \E j \in DOMAIN calls' :
                         /\ j > i
                         /\ calls'[j] = Call("remove_client", calls'[i].client, NoArg) ]_vars

\* a start failed after the new client had been registered, while another
\* interface still has its client
C11_Witness ==
    /\ op.name = "start_client"
    /\ op.arg = "spawn-failed"
    /\ \E i \in DOMAIN calls : calls[i].fn = "add_client"
    /\ clients # {}

CallsOf(log, fn) == { i \in DOMAIN log : log[i].fn = fn }

\* start_client is to ask the provider: the settings say to send a hostname,
\* name none, and a provider is registered
WantsProviderHostname(s, provider) ==
    ~s.null /\ s.send_hostname /\ s.dhcp_hostname.null /\ provider # NULL

\* C13: start_client hands the client a duplicate of the settings with the
\* provider's hostname injected if and only if the settings have
\* send-hostname set, name no hostname, and a provider is registered; the
\* caller's own settings object is not modified.
C13_HostnameInjectedIff ==
    [][ op'.name = "start_client" =>
          \A i \in CallsOf(calls', "nm_dhcp_client_start") :
             LET a == calls'[i].arg
                 s == a.s_ip4_in
             IN  /\ a.s_ip4 = s
                 /\ WantsProviderHostname(s, hostname_provider) =>
                       /\ i > 1
                       /\ calls'[i - 1].fn = "nm_hostname_provider_get_hostname"
                       /\ calls'[i - 1].client = hostname_provider
                       /\ ~a.setting.null
                       /\ a.setting = [s EXCEPT !.dhcp_hostname = calls'[i - 1].arg.hostname]
                 /\ ~WantsProviderHostname(s, hostname_provider) =>
                       /\ a.setting.null \/ a.setting = s
                       /\ CallsOf(calls', "nm_hostname_provider_get_hostname") = {} ]_vars

\* a start was handed a duplicate carrying the provider's hostname "h", while
\* the caller's settings still name no hostname
C13_Witness ==
    /\ op.name = "start_client"
    /\ \E i \in CallsOf(calls, "nm_dhcp_client_start") :
         /\ ~calls[i].arg.setting.null
         /\ calls[i].arg.setting.dhcp_hostname = Str(<< 104 >>)
         /\ calls[i].arg.s_ip4.dhcp_hostname.null

\* C14: when the registered hostname provider is destroyed, the manager's
\* reference to it is cleared in the same step; hostname_provider never names
\* a destroyed provider, start_client never asks a destroyed provider, and a
\* start_client without a registered provider hands over no injected hostname.
C14_ProviderClearedOnDestroy ==
    [][ /\ \A p \in providers :
             (p \notin providers' /\ hostname_provider = p) => hostname_provider' = NULL
        /\ hostname_provider' # NULL => hostname_provider' \in providers'
        /\ op'.name = "start_client" =>
             /\ \A i \in CallsOf(calls', "nm_hostname_provider_get_hostname") :
                  calls'[i].client \in providers
             /\ hostname_provider = NULL =>
                  \A i \in CallsOf(calls', "nm_dhcp_client_start") :
                     calls'[i].arg.setting.null ]_vars

\* the registered provider was destroyed and its callback cleared the
\* manager's reference
C14_Witness ==
    /\ op.name = "provider_destroyed"
    /\ calls = << Call("hostname_provider_destroyed", op.client, NoArg) >>
    /\ op.client \notin providers
    /\ hostname_provider = NULL

\* C15: teardown of the manager removes every client from the registry and
\* disconnects the manager's handlers, but stops no client: it makes no call
\* but remove_client, no helper is signalled, and every client object that
\* outlives it is as it was (PID, PID-file path, timer and watch).
C15_TeardownStopsNothing ==
    [][ op'.name = "dispose" =>
          /\ clients' = {}
          /\ handlers' = {}
          /\ procs' = procs
          /\ Len(calls') = Cardinality(clients)
          /\ \A c \in clients : \E i \in DOMAIN calls' :
                calls'[i] = Call("remove_client", c, NoArg)
          /\ \A i \in DOMAIN calls' : calls'[i].fn = "remove_client"
          /\ \A c \in ClientIds : obj'[c].alloc => obj'[c] = obj[c] ]_vars

\* teardown removed two clients whose helpers are still running
C15_Witness ==
    /\ op.name = "dispose"
    /\ Len(calls) = 2
    /\ Cardinality(procs) = 2
    /\ \A i \in DOMAIN calls :
         /\ obj[calls[i].client].alloc
         /\ obj[calls[i].client].pid \in procs
         /\ ~obj[calls[i].client].pid_file.null

\* C18: a client that was removed from the registry has none of the manager's
\* handlers connected, receives no event, and its later "state-changed" and
\* "timeout" signals make the manager call nothing and leave the registry
\* as it is; no step removes a client twice or removes one not registered.
C18_RemovedClientIsInert ==
    [][ /\ \A h \in handlers' : h[1] \in clients'
        /\ (op'.name \in { "state_changed", "timeout" } /\ op'.client \notin clients) =>
              /\ clients' = clients
              /\ handlers' = handlers
              /\ calls' = <<>>
        /\ \A i \in Forwards(calls') : calls'[i].client \in clients
        /\ \A i \in CallsOf(calls', "remove_client") :
              /\ \A j \in CallsOf(calls', "remove_client") :
                    calls'[j].client = calls'[i].client => i = j
              /\ calls'[i].client \notin clients'
              /\ (op'.name # "start_client" \/ op'.arg = "spawned") =>
                    calls'[i].client \in clients ]_vars

\* a client that had been removed but was still held emitted "state-changed"
\* when its helper exited, and the manager did nothing
C18_Witness ==
    /\ op.name = "state_changed"
    /\ op.client # NULL
    /\ calls = <<>>
    /\ clients # {}

\* the manager objects that exist
LiveManagers == { m \in ManagerIds : managers[m].alive }

\* C16: after any sequence of Manager.new calls at most one manager object
\* exists in the process.
C16_AtMostOneManager == Cardinality(LiveManagers) <= 1

\* C17: Manager.new returns a manager only when the selector is "dhclient" or
\* "dhcpcd" and the path of that helper is not empty, and then the manager is
\* of that back-end and subscribed to the bus; otherwise it returns no
\* manager, leaves no new manager object behind and makes no bus subscription.
C17_NewSucceedsOnlyForKnownBackend ==
    [][ op'.name = "new" =>
          LET known == \/ op'.arg = "dhclient" /\ build.dhclient_path # ""
                       \/ op'.arg = "dhcpcd" /\ build.dhcpcd_path # ""
          IN  /\ known <=> op'.client # NULL
              /\ known =>
                    /\ op'.client \notin LiveManagers
                    /\ managers'[op'.client].alive
                    /\ managers'[op'.client].proxy
                    /\ managers'[op'.client].client_type =
                          IF op'.arg = "dhclient" THEN NM_TYPE_DHCP_DHCLIENT
                          ELSE NM_TYPE_DHCP_DHCPCD
                    /\ singleton' = op'.client
              /\ ~known =>
                    /\ managers' = managers
                    /\ CallsOf(calls', "dbus_g_proxy_connect_signal") = {} ]_vars

\* a Manager.new with a known selector whose helper path is empty returned no
\* manager
C17_Witness ==
    /\ op.name = "new"
    /\ op.arg = "dhcpcd"
    /\ build.dhcpcd_path = ""
    /\ op.client = NULL
    /\ CallsOf(calls, "g_object_unref") # {}

\* C19: for every byte array the decoder returns a string of the same length
\* in which every 0x00 byte has become 0x20, every byte above 127 has become
\* 0x3F and every other byte is unchanged; the result holds no 0x00 byte and
\* no byte above 127.
C19_DecodedBytes ==
    op.name = "garray_to_string" =>
        /\ Len(output) = Len(input)
        /\ \A i \in 1..Len(input) :
             /\ input[i] = 0 => output[i] = 32
             /\ input[i] > 127 => output[i] = 63
             /\ input[i] \in 1..127 => output[i] = input[i]
             /\ output[i] \in 1..127

\* an array holding a 0x00 byte, a byte above 127 and an ASCII letter was decoded
C19_Witness ==
    /\ op.name = "garray_to_string"
    /\ \E i, j, k \in 1..Len(input) :
         /\ input[i] = 0
         /\ input[j] = 255
         /\ input[k] = 65
    /\ Len(output) = Len(input)

\* "0.0.0.0/0"
DefaultDest == << 48, 46, 48, 46, 48, 46, 48, 47, 48 >>

\* "192.0.2.254" and "10.0.0.1" with the addresses they denote
KnownGateways ==
    { [text |-> << 49, 57, 50, 46, 48, 46, 50, 46, 50, 53, 52 >>, addr |-> << 192, 0, 2, 254 >>],
      [text |-> << 49, 48, 46, 48, 46, 48, 46, 49 >>, addr |-> << 10, 0, 0, 1 >>] }

\* the pairs of a token list: the indices of their destinations
PairsOf(tokens) == { i \in 1..Len(tokens) : i % 2 = 1 /\ i < Len(tokens) }

\* C20: a pair whose destination is 0.0.0.0/0 is not added to the route list
\* but returned as the default gateway, and the gateway returned is that
\* pair's next hop ("0.0.0.0/0 192.0.2.254" gives the gateway 192.0.2.254).
\* Stated for option values all of whose pairs are well formed.
C20_DefaultRouteGatewayIsNextHop ==
    ( /\ op.name = "process_classless_routes"
      /\ Len(input.tokens) % 2 = 0
      /\ \A j \in PairsOf(input.tokens) :
           input.tokens[j] \in GoodDests /\ input.tokens[j + 1] \in GoodGateways ) =>
        \A i \in PairsOf(input.tokens) : \A g \in KnownGateways :
            ( /\ input.tokens[i] = DefaultDest
              /\ input.tokens[i + 1] = g.text
              /\ \A j \in PairsOf(input.tokens) : input.tokens[j] = DefaultDest => j = i ) =>
                /\ output.ret
                /\ \A k \in 1..Len(output.routes) :
                     ~(output.routes[k].dest = ZeroAddr /\ output.routes[k].prefix = 0)
                /\ output.gwaddr = g.addr


\* the option value the parser is to read: the standard key's if present
UsedValue(options) ==
    IF ~options.new_classless_static_routes.null
    THEN options.new_classless_static_routes
    ELSE options.new_ms_classless_static_routes

\* the number of space-separated tokens of a string
TokenCount(s) == 1 + Cardinality({ i \in 1..Len(s) : s[i] = 32 })

\* C21: on an empty option value, or a value with an odd number of
\* space-separated tokens, the parser adds no route, leaves the default
\* gateway as it was and returns FALSE.
C21_EmptyOrOddAddsNothing ==
    op.name = "process_classless_routes" =>
        LET used == UsedValue(input.options)
        IN  (used.null \/ used.str = << >> \/ TokenCount(used.str) % 2 = 1) =>
               /\ ~output.ret
               /\ output.routes = << >>
               /\ output.gwaddr = input.gwaddr

\* a value of three tokens, the first two a well-formed pair, was parsed
C21_Witness ==
    /\ op.name = "process_classless_routes"
    /\ Len(input.tokens) = 3
    /\ TokenCount(UsedValue(input.options).str) = 3
    /\ input.tokens[1] \in GoodDests
    /\ input.tokens[2] \in GoodGateways
    /\ ~output.ret

\* the well-formed destination tokens with the route they denote
KnownDests ==
    { [text |-> DefaultDest, dest |-> ZeroAddr, prefix |-> 0],
      [text |-> << 49, 48, 46, 48, 46, 48, 46, 48, 47, 56 >>, dest |-> << 10, 0, 0, 0 >>, prefix |-> 8],
      [text |-> << 49, 57, 50, 46, 48, 46, 50, 46, 49 >>, dest |-> << 192, 0, 2, 1 >>, prefix |-> 32],
      [text |-> << 48, 46, 48, 46, 48, 46, 48 >>, dest |-> ZeroAddr, prefix |-> 32] }

\* pair i of the tokens is valid: a well-formed destination and next hop
ValidPair(tokens, i) ==
    /\ \E d \in KnownDests : tokens[i] = d.text
    /\ \E g \in KnownGateways : tokens[i + 1] = g.text

\* the routes of the valid pairs from pair i on, in their order; the pair
\* 0.0.0.0/0 is the default gateway and no route
RECURSIVE ExpectedRoutes(_, _)
ExpectedRoutes(tokens, i) ==
    IF i >= Len(tokens) THEN << >>
    ELSE IF ValidPair(tokens, i) /\ tokens[i] # DefaultDest
    THEN LET d == CHOOSE d \in KnownDests : tokens[i] = d.text
             g == CHOOSE g \in KnownGateways : tokens[i + 1] = g.text
         IN  << [dest |-> d.dest, prefix |-> d.prefix, next_hop |-> g.addr] >>
             \o ExpectedRoutes(tokens, i + 2)
    ELSE ExpectedRoutes(tokens, i + 2)

\* C22: over an even-length token list a pair with an invalid destination,
\* cidr or next-hop token is skipped alone: the routes stored are those of
\* the valid pairs, in their order, and the result is TRUE exactly when at
\* least one pair is valid.
C22_InvalidPairSkippedAlone ==
    (op.name = "process_classless_routes" /\ Len(input.tokens) % 2 = 0) =>
        /\ output.routes = ExpectedRoutes(input.tokens, 1)
        /\ output.ret <=> \E i \in PairsOf(input.tokens) : ValidPair(input.tokens, i)

\* "10.0.0/8": the destination whose address is malformed
BadAddrDest == << 49, 48, 46, 48, 46, 48, 47, 56 >>

\* C23: every route the parser stores has a prefix length in [0,32]; a
\* destination without "/cidr" is stored with prefix 32; a destination whose
\* cidr is not a number in [0,32] is not stored as a route.
C23_PrefixInRange ==
    op.name = "process_classless_routes" =>
        /\ \A k \in 1..Len(output.routes) : output.routes[k].prefix \in 0..32
        /\ \A d \in KnownDests : \A g \in KnownGateways :
             (input.tokens = << d.text, g.text >> /\ strchr(d.text, 47) = 0) =>
                output.routes = << [dest |-> d.dest, prefix |-> 32, next_hop |-> g.addr] >>
        /\ \A g \in KnownGateways :
             ( /\ Len(input.tokens) = 2
               /\ input.tokens[1] \in OddDests \ { BadAddrDest }
               /\ input.tokens[2] = g.text ) =>
                output.routes = << >>

\* C24: the value under new_classless_static_routes is read when that key is
\* present, and then the Microsoft key does not matter; a value present only
\* under new_ms_classless_static_routes gives the routes, gateway and result
\* the same value gives under new_classless_static_routes.
C24_MsOptionParsedIdentically ==
    op.name = "process_classless_routes" =>
        LET o == input.options
            alone(v) == [new_classless_static_routes |-> v,
                         new_ms_classless_static_routes |-> NullStr]
            result(v) == real_ip4_process_classless_routes(alone(v), input.gwaddr, input.einval)
        IN  /\ ~o.new_classless_static_routes.null =>
                 output = result(o.new_classless_static_routes)
            /\ (o.new_classless_static_routes.null /\ ~o.new_ms_classless_static_routes.null) =>
                 output = result(o.new_ms_classless_static_routes)

\* a value present only under the Microsoft key gave a route
C24_Witness ==
    /\ op.name = "process_classless_routes"
    /\ input.options.new_classless_static_routes.null
    /\ ~input.options.new_ms_classless_static_routes.null
    /\ output.ret
    /\ Len(output.routes) >= 1


----------------------------------------------------------------------------
(* Properties of the dhcpcd client *)

\* the PID file of the interface of client c
PidFileOfClient(o, c) == PidFileOf(NM_TYPE_DHCP_DHCPCD, o[c].iface).str

\* C25: when a dhcpcd client starts and spawns a helper, the running helper
\* whose PID the interface's PID file holds has been killed before the spawn
\* and is not running afterwards, so that the old and the new helper never run
\* together; when the helper binary does not exist, the start returns a
\* failure, spawns nothing and leaves the running helpers as they were.
C25_OldHelperStoppedBeforeSpawn ==
    [][ op'.name = "ip4_start" =>
          LET c == op'.client
              old == PidInFile(disk, PidFileOfClient(obj, c))
          IN  /\ (output' > 0 /\ old \in procs) =>
                    /\ old \notin procs'
                    /\ output' \in procs'
                    /\ output' # old
                    /\ \E i \in CallsOf(calls', "kill") :
                          /\ calls'[i].client = old
                          /\ \A j \in CallsOf(calls', "g_spawn_async") : i < j
              /\ ~g_file_test(disk, DHCPCD_PATH) =>
                    /\ output' = -1
                    /\ procs' = procs
                    /\ CallsOf(calls', "g_spawn_async") = {} ]_vars

\* a start killed the helper an earlier daemon had left and spawned a new one
C25_Witness ==
    /\ op.name = "ip4_start"
    /\ output > 0
    /\ CallsOf(calls, "kill") # {}
    /\ output \in procs

\* C26: the stop of a dhcpcd client runs the base stop, which terminates the
\* helper, and then removes the client's PID file, so that the file does not
\* exist when stop returns; a second stop right after the first changes
\* nothing.
C26_StopRemovesPidFile ==
    [][ op'.name = "stop" =>
          LET c == op'.client
          IN  /\ calls'[1].fn = "stop"
              /\ obj[c].watch => obj[c].pid \notin procs'
              /\ ~obj[c].pid_file.null =>
                    /\ ~g_file_test(disk', obj[c].pid_file.str)
                    /\ CallsOf(calls', "remove") = {2}
              /\ (op.name = "stop" /\ op.client = c) =>
                    /\ obj' = obj
                    /\ disk' = disk
                    /\ procs' = procs ]_vars

\* a client whose helper had been spawned was stopped: the helper is gone and
\* so is the PID file
C26_Witness ==
    /\ op.name = "stop"
    /\ obj[op.client].pid > 0
    /\ obj[op.client].pid \notin procs
    /\ CallsOf(calls, "remove") # {}
    /\ ~g_file_test(disk, obj[op.client].pid_file.str)


\* C27: get_lease_config, given an interface and a UUID, returns what the
\* lease reader of the back-end selected at nm_dhcp_manager_new returns, and
\* calls no other reader; with the dhcpcd back-end that is the empty list
\* whatever the interface, the UUID and the lease files are.
C27_LeaseReaderOfBackend ==
    (op.name = "get_lease_config" /\ ~input.iface.null /\ ~input.uuid.null) =>
       LET type == managers[op.client].client_type
       IN  /\ Len(calls) = 1
           /\ calls[1].client = op.client
           /\ type = NM_TYPE_DHCP_DHCPCD =>
                 /\ calls[1].fn = "nm_dhcp_dhcpcd_get_lease_config"
                 /\ output = << >>
           /\ type = NM_TYPE_DHCP_DHCLIENT =>
                 /\ calls[1].fn = "nm_dhcp_dhclient_get_lease_config"
                 /\ output = input.leases

\* a manager of the dhcpcd back-end was asked while a lease file held a lease
C27_Witness ==
    /\ op.name = "get_lease_config"
    /\ managers[op.client].client_type = NM_TYPE_DHCP_DHCPCD
    /\ ~input.iface.null
    /\ ~input.uuid.null
    /\ input.leases # << >>
    /\ output = << >>


\* C29: when start_client injects no hostname (the settings do not ask to send
\* one, or name one, or no provider is registered), the settings handed to
\* the client's start are the settings the caller passed to start_client.
C29_CallerSettingsHandedOn ==
    op.name = "start_client" =>
       \A i \in CallsOf(calls, "nm_dhcp_client_start") :
          LET a == calls[i].arg
          IN  ~WantsProviderHostname(a.s_ip4_in, hostname_provider) =>
                 a.setting = a.s_ip4_in


\* C30: the manager's provider reference is always empty or a live provider,
\* and it is the provider most recently set: set_hostname_provider makes it
\* the provider given (empty for none), the destruction of a provider empties
\* it when that provider is the registered one and leaves it alone otherwise,
\* and no other step changes it except the teardown, which empties it.
C30_ProviderIsMostRecentlySet ==
    [][ /\ hostname_provider' = NULL \/ hostname_provider' \in providers'
        /\ op'.name = "set_hostname_provider" => hostname_provider' = op'.client
        /\ op'.name = "provider_destroyed" =>
              hostname_provider' = IF op'.client = hostname_provider
                                   THEN NULL ELSE hostname_provider
        /\ op'.name \notin { "set_hostname_provider", "provider_destroyed" } =>
              hostname_provider' \in { hostname_provider, NULL } ]_vars

\* a provider that had been replaced was destroyed: its callback did not run
\* and the provider set after it is still registered
C30_Witness ==
    /\ op.name = "provider_destroyed"
    /\ calls = <<>>
    /\ hostname_provider # NULL
    /\ hostname_provider # op.client
    /\ hostname_provider \in providers


----------------------------------------------------------------------------
(* Properties of the session monitor *)

\* the four session queries
SessionQueries == { "user_has_session", "uid_has_session", "user_active", "uid_active" }

\* C28: a session query that is given an error location and returns FALSE
\* has stored an error at that location.
C28_FalseOnlyWithError ==
    (op.name \in SessionQueries /\ input.has_loc /\ ~output.aborted /\ ~output.ret) =>
       output.error # "none"


\* C31: a Manager.new that fails while singleton refers to a manager an
\* earlier Manager.new created leaves that manager alive and singleton
\* referring to it, so that a following Manager.get returns it.
C31_FailedNewKeepsManager ==
    [][ /\ (op'.name = "new" /\ op'.client = NULL /\ singleton # NULL) =>
              /\ singleton' = singleton
              /\ managers'[singleton].alive
        /\ (op'.name = "get" /\ op.name = "new" /\ op.client = NULL
                /\ LiveManagers # {}) =>
              op'.client \in LiveManagers ]_vars


\* the operation that ran last was a query, and it reloaded the database
Reloaded == calls # << >> /\ calls[1].fn = "reload_database"

\* both session tables of the monitor are empty
NoSessions(mon) ==
    /\ \A uid \in Uids : mon.sessions_by_uid[uid].null
    /\ \A user \in Users : mon.sessions_by_user[user].null

\* the session tables a load of the database file gives; empty tables when
\* the file does not load
SessionsOf(db) ==
    LET fresh == reload_database(monitor, db, FALSE, FALSE).monitor
    IN  << fresh.sessions_by_user, fresh.sessions_by_uid >>

====
